---- MODULE Spec2Model ----
(***************************************************************************)
(* Kuroko execution core: the single-pass compiler's statement lowering    *)
(* (compiler.c), the bytecode machine that runs the emitted chunks, and    *)
(* generator objects (obj_gen.c).                                          *)
(*                                                                         *)
(* Offsets into a chunk are 0-based as in the C source; code[o] of the C   *)
(* source is code[o + 1] of the sequence that models the byte vector.      *)
(***************************************************************************)
EXTENDS Integers, Sequences, FiniteSets, TLC

VARIABLES prog, pc, chunks, stack, frames, hasException, currentException,
          log, iterPos, gen, pending, hist, heap, parser, _compilerLock, compiling,
          current

vars == <<prog, pc, chunks, stack, frames, hasException, currentException,
          log, iterPos, gen, pending, hist, heap, parser, _compilerLock, compiling,
          current>>

(* The compiler's static state (compiler.c): the parser, the lock of        *)
(* krk_compile, the threads inside it and the chain of compilers.           *)
static == <<parser, _compilerLock, compiling, current>>

-----------------------------------------------------------------------------
(* Bounds of the model.                                                    *)
MaxWith == 3
MaxItems == 2
MaxYields == 2
MaxDepth == 1
MaxCount == 5
MaxLine == 3
MaxSaves == 2
MaxOperands == 2
MaxThreads == 2
MaxCompiles == 3
MaxObjects == 4
MaxStack == 3
MaxDefaults == 2

-----------------------------------------------------------------------------
(* Opcodes (KrkOpCode).                                                    *)
OP_CALL_STACK == 6
OP_CLEANUP_WITH == 7
OP_CLOSE_UPVALUE == 8
OP_EQUAL == 12
OP_GREATER == 15
OP_LESS == 24
OP_MULTIPLY == 26
OP_NONE == 28
OP_NOT == 29
OP_POP == 30
OP_POW == 31
OP_RAISE == 32
OP_RETURN == 33
OP_CALL == 64
OP_CLOSURE == 66
OP_CONSTANT == 67
OP_EXPAND_ARGS == 72
OP_GET_GLOBAL == 73
OP_GET_LOCAL == 74
OP_GET_PROPERTY == 75
OP_GET_UPVALUE == 77
OP_INC == 80
OP_KWARGS == 81
OP_SET_LOCAL == 84
OP_TUPLE == 87
OP_JUMP_IF_FALSE == 128
OP_JUMP_IF_TRUE == 129
OP_JUMP == 130
OP_LOOP == 131
OP_PUSH_TRY == 132
OP_PUSH_WITH == 133
OP_CALL_LONG == 192
OP_CONSTANT_LONG == 195

-----------------------------------------------------------------------------
(* Values (KrkValue): a tag t, an integer payload v, the handler kind k    *)
(* (the opcode that installed the handler) and a name s (the text of a     *)
(* string, the class of an object).                                        *)
NONE_VAL == [t |-> "none", v |-> 0, k |-> 0, s |-> ""]
BOOLEAN_VAL(b) == [t |-> "bool", v |-> IF b THEN 1 ELSE 0, k |-> 0, s |-> ""]
INTEGER_VAL(i) == [t |-> "int", v |-> i, k |-> 0, s |-> ""]
KWARGS_VAL(n) == [t |-> "kwargs", v |-> n, k |-> 0, s |-> ""]
HANDLER_VAL(kind, target) == [t |-> "handler", v |-> target, k |-> kind, s |-> ""]
OBJECT_VAL(class, id) == [t |-> "obj", v |-> id, k |-> 0, s |-> class]
STRING_VAL(chars) == [t |-> "str", v |-> 0, k |-> 0, s |-> chars]

IS_OBJECT(a) == a.t \in {"obj", "str"}
IS_KWARGS(a) == a.t = "kwargs"
IS_NONE(a) == a.t = "none"
IS_BOOLEAN(a) == a.t = "bool"
IS_INTEGER(a) == a.t = "int"
IS_HANDLER(a) == a.t = "handler"

-----------------------------------------------------------------------------
(* The compiler (compiler.c).  A Compiler record c holds the chunk being   *)
(* written (code, constants), the locals with their scope depth, the       *)
(* scope depth and the parser's hadError flag; the compiler it is nested   *)
(* in (enclosing, <<>> for none), its upvalues, the jumps of break and     *)
(* continue to be patched, the local count at the innermost loop, and the  *)
(* functions compiled so far inside the outermost one.                     *)

initCompiler ==
    [code |-> <<>>, constants |-> <<>>, locals |-> <<>>, scopeDepth |-> 0,
     hadError |-> FALSE, requiredArgs |-> 0, keywordArgs |-> 0,
     enclosing |-> <<>>, upvalues |-> <<>>, breaks |-> <<>>, continues |-> <<>>,
     loopLocalCount |-> 0, functions |-> <<>>]

error(c) == [c EXCEPT !.hadError = TRUE]

emitByte(c, byte) == [c EXCEPT !.code = Append(@, byte % 256)]

emitBytes(c, byte1, byte2) == emitByte(emitByte(c, byte1), byte2)

(* opc ## _LONG: every operand opcode's long form is as far above it as    *)
(* OP_CALL_LONG is above OP_CALL.                                          *)
LONG(opc) == opc + (OP_CALL_LONG - OP_CALL)

(* EMIT_CONSTANT_OP with the one-byte form taken up to 256.                 *)
EMIT_CONSTANT_OP_short256(c, opc, arg) ==
    IF arg <= 256
    THEN emitBytes(c, opc, arg)
    ELSE emitBytes(emitBytes(c, LONG(opc), arg \div 65536), arg \div 256, arg)

EMIT_CONSTANT_OP(c, opc, arg) ==
    IF arg < 256
    THEN emitBytes(c, opc, arg)
    ELSE emitBytes(emitBytes(c, LONG(opc), arg \div 65536), arg \div 256, arg)

(* krk_addConstant: the new constant's index is Len(c.constants) before.   *)
krk_addConstant(c, value) == [c EXCEPT !.constants = Append(@, value)]

(* emitConstant: krk_writeConstant adds the constant and emits OP_CONSTANT  *)
(* with its index.                                                          *)
emitConstant(c, value) ==
    EMIT_CONSTANT_OP(krk_addConstant(c, value), OP_CONSTANT, Len(c.constants))

emitReturn(c) == emitByte(emitByte(c, OP_NONE), OP_RETURN)

beginScope(c) == [c EXCEPT !.scopeDepth = @ + 1]

RECURSIVE popLocals(_)
popLocals(c) ==
    LET n == Len(c.locals) IN
    IF n > 0 /\ c.locals[n].depth > c.scopeDepth
    THEN popLocals(emitByte([c EXCEPT !.locals = SubSeq(@, 1, n - 1)],
                            IF c.locals[n].isCaptured THEN OP_CLOSE_UPVALUE ELSE OP_POP))
    ELSE c

endScope(c) == popLocals([c EXCEPT !.scopeDepth = @ - 1])

(* emitJump returns the offset of the operand: Len(code) - 2 afterwards.   *)
emitJump(c, opcode) == emitBytes(emitByte(c, opcode), 255, 255)

patchJump(c, offset) ==
    LET jump == Len(c.code) - offset - 2 IN
    [c EXCEPT !.code = [@ EXCEPT ![offset + 1] = (jump \div 256) % 256,
                                 ![offset + 2] = jump % 256],
              !.hadError = @ \/ jump > 65535]

(* The jumps of continue statements after loopStart are patched to where   *)
(* emitLoop is about to write, the jumps of break statements to where      *)
(* patchBreaks is called.                                                  *)
RECURSIVE patchContinues(_, _)
patchContinues(c, loopStart) ==
    IF c.continues # <<>> /\ c.continues[Len(c.continues)] > loopStart
    THEN patchContinues(
            [patchJump(c, c.continues[Len(c.continues)])
                EXCEPT !.continues = SubSeq(@, 1, Len(@) - 1)],
            loopStart)
    ELSE c

RECURSIVE patchBreaks(_, _)
patchBreaks(c, loopStart) ==
    IF c.breaks # <<>> /\ c.breaks[Len(c.breaks)] > loopStart
    THEN patchBreaks(
            [patchJump(c, c.breaks[Len(c.breaks)]) EXCEPT !.breaks = SubSeq(@, 1, Len(@) - 1)],
            loopStart)
    ELSE c

emitLoop(c, loopStart) ==
    LET c1 == emitByte(patchContinues(c, loopStart), OP_LOOP)
        offset == Len(c1.code) - loopStart + 2
        c2 == IF offset > 65535 THEN error(c1) ELSE c1
    IN emitBytes(c2, offset \div 256, offset)

addLocal(c, name) ==
    [c EXCEPT !.locals = Append(@, [name |-> name, depth |-> -1, isCaptured |-> FALSE])]

markInitialized(c) ==
    IF c.scopeDepth = 0 THEN c
    ELSE [c EXCEPT !.locals[Len(c.locals)].depth = c.scopeDepth]

(* The slot of the innermost local called name, or -1.                     *)
resolveLocal(c, name) ==
    LET hits == {i \in 1..Len(c.locals) : c.locals[i].name = name} IN
    IF hits = {} THEN -1
    ELSE (CHOOSE i \in hits : \A j \in hits : j <= i) - 1

(* addUpvalue and resolveUpvalue give the compiler as they leave it and    *)
(* the index found (arg, -1 for none): a local of the enclosing compiler   *)
(* is marked captured there, an upvalue of the enclosing compiler is       *)
(* passed on.                                                              *)
addUpvalue(c, index, isLocal) ==
    IF \E i \in 1..Len(c.upvalues) : c.upvalues[i] = [index |-> index, isLocal |-> isLocal]
    THEN [c |-> c,
          arg |-> (CHOOSE i \in 1..Len(c.upvalues) :
                        c.upvalues[i] = [index |-> index, isLocal |-> isLocal]) - 1]
    ELSE [c |-> [c EXCEPT !.upvalues = Append(@, [index |-> index, isLocal |-> isLocal])],
          arg |-> Len(c.upvalues)]

RECURSIVE resolveUpvalue(_, _)
resolveUpvalue_enclosing(c, name, found) ==
    IF found.arg # -1
    THEN addUpvalue([c EXCEPT !.enclosing = <<found.c>>], found.arg, FALSE)
    ELSE [c |-> c, arg |-> -1]

resolveUpvalue(c, name) ==
    IF c.enclosing = <<>> THEN [c |-> c, arg |-> -1]
    ELSE IF resolveLocal(c.enclosing[1], name) # -1
    THEN addUpvalue(
            [c EXCEPT !.enclosing[1].locals[resolveLocal(c.enclosing[1], name) + 1].isCaptured
                            = TRUE],
            resolveLocal(c.enclosing[1], name), TRUE)
    ELSE resolveUpvalue_enclosing(c, name, resolveUpvalue(c.enclosing[1], name))

(* namedVariable, reading the variable: a local if one resolves, else an   *)
(* upvalue if one resolves, else a global looked up by name.               *)
namedVariable_upvalue(c, name, found) ==
    IF found.arg # -1
    THEN EMIT_CONSTANT_OP(found.c, OP_GET_UPVALUE, found.arg)
    ELSE EMIT_CONSTANT_OP(krk_addConstant(c, STRING_VAL(name)), OP_GET_GLOBAL,
                          Len(c.constants))

namedVariable(c, name) ==
    LET arg == resolveLocal(c, name) IN
    IF arg # -1
    THEN EMIT_CONSTANT_OP(c, OP_GET_LOCAL, arg)
    ELSE namedVariable_upvalue(c, name, resolveUpvalue(c, name))

RECURSIVE arguments(_, _)
arguments(c, args) ==
    IF args = <<>> THEN c
    ELSE arguments(namedVariable(c, Head(args)), Tail(args))

(* call()'s keyword arguments NAME=VALUE: the name as a constant, then the  *)
(* value.                                                                  *)
RECURSIVE keywordArguments(_, _)
keywordArguments(c, kw) ==
    IF kw = <<>> THEN c
    ELSE keywordArguments(
            namedVariable(
                EMIT_CONSTANT_OP(krk_addConstant(c, STRING_VAL(Head(kw).name)), OP_CONSTANT,
                                 Len(c.constants)),
                Head(kw).value),
            Tail(kw))

(* The compiler writes the chunk in place.  Settled(c) marks the points    *)
(* where the model takes the chunk as written so far before it goes on     *)
(* with a nested block; it is TRUE of every Compiler record.               *)
Settled(c) == c.hadError \in BOOLEAN /\ Len(c.code) >= 0

(* endCompiler: the function with its chunk, the names of its arguments,    *)
(* which are its first locals, and the number of its upvalues.              *)
KrkFunction(c) ==
    [code |-> c.code, constants |-> c.constants,
     requiredArgs |-> c.requiredArgs, keywordArgs |-> c.keywordArgs,
     requiredArgNames |-> [i \in 1..c.requiredArgs |-> c.locals[i].name],
     keywordArgNames |-> [i \in 1..c.keywordArgs |-> c.locals[i + c.requiredArgs].name],
     upvalueCount |-> Len(c.upvalues)]

(* The functions of a module: main, f and g, then the functions nested in   *)
(* them in the order in which their compilers end.                          *)
TopLevel == <<"main", "f", "g">>

(* initCompiler for a function nested in the compiler c.                    *)
nestedCompiler(c) ==
    [initCompiler EXCEPT !.enclosing = <<c>>, !.functions = c.functions,
                         !.hadError = c.hadError]

(* One turn of the loop of doUpvalues, for the upvalue at position i       *)
(* (from 0): the flag byte, two more bytes of the index when i > 255, the  *)
(* low byte of the index.                                                  *)
doUpvalues_index(c, upvalue, i) ==
    IF i > 255
    THEN emitBytes(c, (upvalue.index \div 65536) % 256, (upvalue.index \div 256) % 256)
    ELSE c

doUpvalues_turn(c, upvalue, i) ==
    emitByte(doUpvalues_index(emitByte(c, IF upvalue.isLocal THEN 1 ELSE 0), upvalue, i),
             upvalue.index % 256)

RECURSIVE doUpvalues(_, _, _)
doUpvalues(c, upvalues, i) ==
    IF i >= Len(upvalues) THEN c
    ELSE doUpvalues(doUpvalues_turn(c, upvalues[i + 1], i), upvalues, i + 1)

(* The end of a nested function: endCompiler() gives the function and makes *)
(* the enclosing compiler current; there the function becomes a constant    *)
(* and OP_CLOSURE with the upvalues is emitted.                             *)
endFunction_closure(outer, inner) ==
    doUpvalues(
        EMIT_CONSTANT_OP(
            krk_addConstant(outer,
                            OBJECT_VAL("function", Len(TopLevel) + Len(outer.functions))),
            OP_CLOSURE, Len(outer.constants)),
        inner.upvalues, 0)

endFunction(inner) ==
    IF Settled(inner)
    THEN endFunction_closure(
            [inner.enclosing[1] EXCEPT !.functions = Append(inner.functions, KrkFunction(inner)),
                                       !.hadError = inner.hadError],
            inner)
    ELSE inner

(* expression: a name, or a call of a name on positional names and then    *)
(* keyword arguments (call); with keyword arguments OP_KWARGS pushes the   *)
(* sentinel that counts them and the call's count covers names, values     *)
(* and sentinel; a list expression; a call of a method.                    *)
RECURSIVE expression(_, _)

(* comprehension: EXPR for NAME in ITERABLE is compiled as a function of   *)
(* its own with the locals counter, NAME and iterator; every turn of the   *)
(* loop leaves the value of EXPR on the stack and counts it, and at the    *)
(* end listOf is called on the values counted.  The function is called     *)
(* where the comprehension stands.                                         *)
comprehension_call(c) == emitBytes(endFunction(emitReturn(c)), OP_CALL, 0)

comprehension_build(c, indLoopCounter, indLoopIter) ==
    emitByte(
        emitByte(
            EMIT_CONSTANT_OP(
                emitByte(
                    EMIT_CONSTANT_OP(
                        EMIT_CONSTANT_OP(krk_addConstant(c, STRING_VAL("listOf")),
                                         OP_GET_GLOBAL, Len(c.constants)),
                        OP_SET_LOCAL, indLoopIter),
                    OP_POP),
                OP_GET_LOCAL, indLoopCounter),
            OP_CALL_STACK),
        OP_RETURN)

comprehension_end_uncounted(c, loopStart, exitJump, indLoopCounter, indLoopIter) ==
    IF Settled(c)
    THEN comprehension_call(
            comprehension_build(
                emitByte(patchJump(emitLoop(c, loopStart), exitJump), OP_POP),
                indLoopCounter, indLoopIter))
    ELSE c

comprehension_end(c, loopStart, exitJump, indLoopCounter, indLoopIter) ==
    IF Settled(c)
    THEN comprehension_call(
            comprehension_build(
                emitByte(
                    patchJump(emitLoop(EMIT_CONSTANT_OP(c, OP_INC, indLoopCounter), loopStart),
                              exitJump),
                    OP_POP),
                indLoopCounter, indLoopIter))
    ELSE c

comprehension_inner(c, loopStart, indLoopCounter, indLoopIter, e) ==
    IF Settled(c)
    THEN comprehension_end(endScope(expression(beginScope(c), e.inner)),
                           loopStart, Len(c.code) - 3, indLoopCounter, indLoopIter)
    ELSE c

comprehension_loop(c, indLoopCounter, loopInd, indLoopIter, e) ==
    IF Settled(c)
    THEN comprehension_inner(
            emitByte(
                emitJump(
                    emitByte(
                        EMIT_CONSTANT_OP(
                            EMIT_CONSTANT_OP(
                                emitBytes(EMIT_CONSTANT_OP(c, OP_GET_LOCAL, indLoopIter),
                                          OP_CALL, 0),
                                OP_SET_LOCAL, loopInd),
                            OP_GET_LOCAL, indLoopIter),
                        OP_EQUAL),
                    OP_JUMP_IF_TRUE),
                OP_POP),
            Len(c.code), indLoopCounter, indLoopIter, e)
    ELSE c

comprehension_iter(c, indLoopCounter, loopInd, e) ==
    IF Settled(c)
    THEN comprehension_loop(
            EMIT_CONSTANT_OP(
                emitBytes(
                    EMIT_CONSTANT_OP(
                        krk_addConstant(markInitialized(addLocal(c, "")),
                                        STRING_VAL("__iter__")),
                        OP_GET_PROPERTY, Len(c.constants)),
                    OP_CALL, 0),
                OP_SET_LOCAL, Len(c.locals)),
            indLoopCounter, loopInd, Len(c.locals), e)
    ELSE c

comprehension(c, e) ==
    comprehension_iter(
        endScope(
            expression(
                beginScope(
                    emitByte(
                        markInitialized(
                            addLocal(
                                markInitialized(
                                    addLocal(
                                        emitConstant(beginScope(nestedCompiler(c)),
                                                     INTEGER_VAL(0)),
                                        "")),
                                e.var)),
                        OP_NONE)),
                e.iter)),
        0, 1, e)

(* list: listOf is looked up; [] calls it on nothing; when a `for` follows *)
(* the first expression, the code written since the start of the list is   *)
(* rolled back (the constants stay) and the comprehension is compiled.     *)
list_first(c, e) ==
    expression(
        EMIT_CONSTANT_OP(krk_addConstant(c, STRING_VAL("listOf")), OP_GET_GLOBAL,
                         Len(c.constants)),
        e.inner)

list_rollback(c, chunkBefore) == [c EXCEPT !.code = SubSeq(@, 1, chunkBefore)]

list(c, e) ==
    IF e.k = "list"
    THEN emitBytes(
            EMIT_CONSTANT_OP(krk_addConstant(c, STRING_VAL("listOf")), OP_GET_GLOBAL,
                             Len(c.constants)),
            OP_CALL, 0)
    ELSE comprehension(list_rollback(list_first(c, e), Len(c.code)), e)

(* dot: .NAME reads the property; a call of it on one argument follows.    *)
dot(c, name) ==
    EMIT_CONSTANT_OP(krk_addConstant(c, STRING_VAL(name)), OP_GET_PROPERTY, Len(c.constants))

expression(c, e) ==
    IF e.k = "call" /\ e.kw = <<>>
    THEN EMIT_CONSTANT_OP(arguments(namedVariable(c, e.n), e.args), OP_CALL, Len(e.args))
    ELSE IF e.k = "call"
    THEN EMIT_CONSTANT_OP(
            EMIT_CONSTANT_OP(
                keywordArguments(arguments(namedVariable(c, e.n), e.args), e.kw),
                OP_KWARGS, Len(e.kw)),
            OP_CALL, Len(e.args) + 1 + 2 * Len(e.kw))
    ELSE IF e.k \in {"list", "comprehension"}
    THEN list(c, e)
    ELSE IF e.k = "method"
    THEN EMIT_CONSTANT_OP(expression(dot(namedVariable(c, e.n), e.method), e.arg), OP_CALL, 1)
    ELSE namedVariable(c, e.n)

expressionStatement(c, s) == emitByte(expression(c, s.e), OP_POP)

raiseStatement(c, s) == emitByte(expression(c, s.e), OP_RAISE)

returnStatement(c, s) ==
    IF s.e.k = "none" THEN emitReturn(c)
    ELSE emitByte(expression(c, s.e), OP_RETURN)

(* consume(type, message): an error unless the expected token is there.    *)
consume(c, matches) == IF matches THEN c ELSE error(c)

RECURSIVE block(_, _)
RECURSIVE statement(_, _)

(* withStatement's cleanup with OP_CLEANUP_WITH emitted before the jump of  *)
(* OP_PUSH_WITH is patched: the handler's target is then past the cleanup.  *)
withStatement_cleanup_unpatched(c, withJump) ==
    IF Settled(c)
    THEN endScope(patchJump(emitByte(endScope(c), OP_CLEANUP_WITH), withJump))
    ELSE c

(* with EXPR as N: BODY.  The statement is compiled in three stretches:    *)
(* up to OP_PUSH_WITH, the body, and the cleanup.  One item is parsed,     *)
(* then the colon is consumed: a further item (a comma where the colon is  *)
(* expected) is the syntax error of consume().                             *)
withStatement_cleanup(c, withJump) ==
    IF Settled(c)
    THEN endScope(emitByte(patchJump(endScope(c), withJump), OP_CLEANUP_WITH))
    ELSE c

withStatement_block(c, s) ==
    IF Settled(c)
    THEN withStatement_cleanup(block(beginScope(markInitialized(c)), s.body),
                               Len(c.code) - 2)
    ELSE c

withStatement(c, s) ==
    withStatement_block(
        emitJump(
            addLocal(
                consume(
                    markInitialized(
                        addLocal(
                            krk_addConstant(expression(beginScope(c), s.items[1].e),
                                            STRING_VAL(s.items[1].as)),
                            s.items[1].as)),
                    Len(s.items) = 1),
                ""),
            OP_PUSH_WITH),
        s)

(* try: BODY except: HANDLER, in four stretches: OP_PUSH_TRY and the       *)
(* handler's local, the body and the jump over the except block, the       *)
(* except block, the end.  After `except` the colon is consumed: a class   *)
(* name there (s.items, the classes of the except clauses) is the syntax   *)
(* error of consume().                                                     *)
tryStatement_end(c, successJump) ==
    IF Settled(c) THEN endScope(patchJump(endScope(c), successJump)) ELSE c

(* tryStatement with the jump of OP_PUSH_TRY patched after the except      *)
(* block instead of before it.                                             *)
tryStatement_except_unpatched(c, tryJump, s) ==
    IF Settled(c)
    THEN tryStatement_end(
            patchJump(block(beginScope(consume(c, s.items = <<>>)), s.handler), tryJump),
            Len(c.code) - 2)
    ELSE c

tryStatement_except(c, tryJump, s) ==
    IF Settled(c)
    THEN tryStatement_end(
            block(beginScope(consume(patchJump(c, tryJump), s.items = <<>>)), s.handler),
            Len(c.code) - 2)
    ELSE c

tryStatement_block(c, s) ==
    IF Settled(c)
    THEN tryStatement_except(emitJump(endScope(block(beginScope(c), s.body)), OP_JUMP),
                             Len(c.code) - 2, s)
    ELSE c

tryStatement(c, s) ==
    tryStatement_block(
        markInitialized(addLocal(emitJump(beginScope(c), OP_PUSH_TRY), "exception")), s)

(* for N in EXPR: BODY, in stretches: the loop variable and the iterable,  *)
(* the call of __iter__, the head of the loop (call the iterator, assign,  *)
(* compare with the iterator by OP_EQUAL, leave if true), the body, the    *)
(* end of the loop.                                                        *)
forStatement_end(c, loopStart, exitJump, oldLocalCount) ==
    IF Settled(c)
    THEN endScope(
            patchBreaks(
                emitByte(
                    patchJump(
                        emitLoop([endScope(c) EXCEPT !.loopLocalCount = oldLocalCount],
                                 loopStart),
                        exitJump),
                    OP_POP),
                loopStart))
    ELSE c

forStatement_block(c, loopStart, s) ==
    IF Settled(c)
    THEN forStatement_end(
            block(beginScope([c EXCEPT !.loopLocalCount = Len(c.locals)]), s.body),
            loopStart, Len(c.code) - 3, c.loopLocalCount)
    ELSE c

forStatement_loop(c, loopInd, indLoopIter, s) ==
    IF Settled(c)
    THEN forStatement_block(
            emitByte(
                emitJump(
                    emitByte(
                        EMIT_CONSTANT_OP(
                            EMIT_CONSTANT_OP(
                                emitBytes(EMIT_CONSTANT_OP(c, OP_GET_LOCAL, indLoopIter),
                                          OP_CALL, 0),
                                OP_SET_LOCAL, loopInd),
                            OP_GET_LOCAL, indLoopIter),
                        OP_EQUAL),
                    OP_JUMP_IF_TRUE),
                OP_POP),
            Len(c.code), s)
    ELSE c

forStatement_iter(c, loopInd, s) ==
    IF Settled(c)
    THEN forStatement_loop(
            EMIT_CONSTANT_OP(
                emitBytes(
                    EMIT_CONSTANT_OP(
                        krk_addConstant(markInitialized(addLocal(c, "")),
                                        STRING_VAL("__iter__")),
                        OP_GET_PROPERTY, Len(c.constants)),
                    OP_CALL, 0),
                OP_SET_LOCAL, Len(c.locals)),
            loopInd, Len(c.locals), s)
    ELSE c

forStatement(c, s) ==
    forStatement_iter(
        endScope(
            expression(
                beginScope(
                    markInitialized(
                        emitByte(addLocal(beginScope(c), s.items[1].as), OP_NONE))),
                s.e)),
        Len(c.locals), s)

(* def NAME(): BODY inside a function: the name is a local, initialized     *)
(* before the body is compiled.                                             *)
defDeclaration_body(inner, s) ==
    IF Settled(inner) THEN endFunction(emitReturn(block(inner, s.body))) ELSE inner

defDeclaration(c, s) ==
    markInitialized(
        defDeclaration_body(
            beginScope(nestedCompiler(markInitialized(addLocal(c, s.items[1].as)))), s))

(* let NAME = EXPR, or let NAME, in a scope.                                *)
letDeclaration(c, s) ==
    markInitialized(
        IF s.e.k = "none" THEN emitByte(addLocal(c, s.items[1].as), OP_NONE)
        ELSE expression(addLocal(c, s.items[1].as), s.e))

(* NAME = EXPR as a statement, for a local NAME (the programs assign to     *)
(* locals only): namedVariable with canAssign, then expressionStatement's   *)
(* OP_POP.                                                                  *)
namedVariable_assign(c, name, e) ==
    IF resolveLocal(c, name) # -1
    THEN EMIT_CONSTANT_OP(expression(c, e), OP_SET_LOCAL, resolveLocal(c, name))
    ELSE error(c)

RECURSIVE emitPops(_, _)
emitPops(c, n) == IF n <= 0 THEN c ELSE emitPops(emitByte(c, OP_POP), n - 1)

(* break and continue: an OP_POP for every local of the loop, then the jump *)
(* that is patched later.                                                   *)
breakStatement_jump(c) == [c EXCEPT !.breaks = Append(@, Len(c.code) - 2)]
breakStatement(c) ==
    breakStatement_jump(emitJump(emitPops(c, Len(c.locals) - c.loopLocalCount), OP_JUMP))

continueStatement_jump(c) == [c EXCEPT !.continues = Append(@, Len(c.code) - 2)]
continueStatement(c) ==
    continueStatement_jump(emitJump(emitPops(c, Len(c.locals) - c.loopLocalCount), OP_JUMP))

(* while EXPR: BODY.                                                        *)
whileStatement_end(c, loopStart, exitJump, oldLocalCount) ==
    IF Settled(c)
    THEN patchBreaks(
            emitByte(
                patchJump(emitLoop([c EXCEPT !.loopLocalCount = oldLocalCount], loopStart),
                          exitJump),
                OP_POP),
            loopStart)
    ELSE c

whileStatement_block(c, loopStart, oldLocalCount, s) ==
    IF Settled(c)
    THEN whileStatement_end(
            endScope(block(beginScope([c EXCEPT !.loopLocalCount = Len(c.locals)]), s.body)),
            loopStart, Len(c.code) - 3, oldLocalCount)
    ELSE c

whileStatement(c, s) ==
    whileStatement_block(emitByte(emitJump(expression(c, s.e), OP_JUMP_IF_FALSE), OP_POP),
                         Len(c.code), c.loopLocalCount, s)

statement(c, s) ==
    CASE s.k = "with" -> withStatement(c, s)
      [] s.k = "try" -> tryStatement(c, s)
      [] s.k = "for" -> forStatement(c, s)
      [] s.k = "raise" -> raiseStatement(c, s)
      [] s.k = "return" -> returnStatement(c, s)
      [] s.k = "pass" -> c
      [] s.k = "let" -> letDeclaration(c, s)
      [] s.k = "def" -> defDeclaration(c, s)
      [] s.k = "assign" -> emitByte(namedVariable_assign(c, s.items[1].as, s.e), OP_POP)
      [] s.k = "while" -> whileStatement(c, s)
      [] s.k = "break" -> breakStatement(c)
      [] s.k = "continue" -> continueStatement(c)
      [] OTHER -> expressionStatement(c, s)

block_rest(c, stmts) == IF Settled(c) THEN block(c, stmts) ELSE c

block(c, stmts) ==
    IF stmts = <<>> THEN c
    ELSE block_rest(statement(c, Head(stmts)), Tail(stmts))

(* function(): the parameters, the body, then endCompiler's emitReturn.    *)
(* A parameter is declared and defined as a local.  One with a default     *)
(* counts as a keyword argument and gets the prologue                      *)
(* `if param == KWARGS_VAL(0): param = EXPRESSION`: the comparison by      *)
(* OP_EQUAL, the jump over the assignment, the pop of the comparison.      *)
function_default(c, myLocal, jumpIndex, param) ==
    [emitByte(
        patchJump(
            endScope(
                emitByte(
                    EMIT_CONSTANT_OP(expression(beginScope(c), param.default),
                                     OP_SET_LOCAL, myLocal),
                    OP_POP)),
            jumpIndex),
        OP_POP) EXCEPT !.keywordArgs = @ + 1]

function_compare(c, myLocal, param) ==
    IF Settled(c)
    THEN function_default(c, myLocal, Len(c.code) - 2, param)
    ELSE c

function_parameter(c, param) ==
    IF param.default.k = "none"
    THEN [markInitialized(addLocal(c, param.name)) EXCEPT !.requiredArgs = @ + 1]
    ELSE function_compare(
            emitJump(
                emitByte(
                    emitConstant(
                        EMIT_CONSTANT_OP(markInitialized(addLocal(c, param.name)),
                                         OP_GET_LOCAL, Len(c.locals)),
                        KWARGS_VAL(0)),
                    OP_EQUAL),
                OP_JUMP_IF_FALSE),
            Len(c.locals), param)

RECURSIVE function_parameters(_, _)
function_parameters(c, params) ==
    IF params = <<>> THEN c
    ELSE function_parameters(function_parameter(c, Head(params)), Tail(params))

function(params, body) ==
    emitReturn(block(function_parameters(beginScope(initCompiler), params), body))


-----------------------------------------------------------------------------
(* Source programs.  A program is described by a record prog and spelled   *)
(* out as the statement lists of its three functions main, f and g.        *)

Name(n) == [k |-> "name", n |-> n, args |-> <<>>, kw |-> <<>>]
Call(n, args) == [k |-> "call", n |-> n, args |-> args, kw |-> <<>>]
CallKw(n, args, kw) == [k |-> "call", n |-> n, args |-> args, kw |-> kw]
NoExpr == [k |-> "none", n |-> "", args |-> <<>>, kw |-> <<>>]
EmptyList == [k |-> "list"]
Comprehension(inner, var, iter) == [k |-> "comprehension", inner |-> inner, var |-> var, iter |-> iter]
Method(n, method, arg) == [k |-> "method", n |-> n, method |-> method, arg |-> arg]
Param(n, default) == [name |-> n, default |-> default]
Item(n, as) == [e |-> Name(n), as |-> as]
Stmt(k, e, items, body, handler) ==
    [k |-> k, e |-> e, items |-> items, body |-> body, handler |-> handler]

ManagerName(i) == "M" \o ToString(i)
MarkName(i) == "k" \o ToString(i)

Mark(i) == Stmt("expr", Call("print", <<MarkName(i)>>), <<>>, <<>>, <<>>)
Raise(n) == Stmt("raise", Name(n), <<>>, <<>>, <<>>)
CallStmt(n) == Stmt("expr", Call(n, <<>>), <<>>, <<>>, <<>>)
With(items, body) == Stmt("with", NoExpr, items, body, <<>>)
Try(body, handler) == Stmt("try", NoExpr, <<>>, body, handler)
TryExcept(body, classes, handler) ==
    Stmt("try", NoExpr, [i \in 1..Len(classes) |-> Item(classes[i], "")], body, handler)
For(x, n, body) == Stmt("for", Name(n), <<Item(n, x)>>, body, <<>>)
Let(n, e) == Stmt("let", e, <<Item(n, n)>>, <<>>, <<>>)
Def(n, body) == Stmt("def", NoExpr, <<Item(n, n)>>, body, <<>>)
Assign(n, e) == Stmt("assign", e, <<Item(n, n)>>, <<>>, <<>>)
While(e, body) == Stmt("while", e, <<>>, body, <<>>)
Break == Stmt("break", NoExpr, <<>>, <<>>, <<>>)
Continue == Stmt("continue", NoExpr, <<>>, <<>>, <<>>)
Return(e) == Stmt("return", e, <<>>, <<>>, <<>>)

(* The marks a program prints: 1 in the innermost body, 2 after the raise  *)
(* (never reached), 4 in the except block, 5 at the end of main, 10 + i    *)
(* after the i-th with statement.                                          *)

Inner(p) ==
    CASE p.body = "raise" -> <<Mark(1), Raise("E"), Mark(2)>>
      [] p.body = "callraise" -> <<Mark(1), CallStmt("g"), Mark(2)>>
      [] OTHER -> <<Mark(1)>>

RECURSIVE Nested(_, _)
Nested(p, i) ==
    IF i > Len(p.exits) THEN Inner(p)
    ELSE <<With(<<Item(ManagerName(i), "m" \o ToString(i))>>, Nested(p, i + 1)),
           Mark(10 + i)>>

Multi(p) ==
    <<With([i \in 1..Len(p.exits) |-> Item(ManagerName(i), "m" \o ToString(i))], Inner(p)),
      Mark(10 + 1)>>

Withs(p) == IF p.multi THEN Multi(p) ELSE Nested(p, 1)

Core(p) ==
    CASE p.kind = "for" -> <<For("x", "xs", <<Stmt("expr", Call("print", <<"x">>), <<>>, <<>>, <<>>)>>)>>
      [] p.kind = "except" ->
            <<TryExcept(IF p.body = "pass" THEN <<Mark(1)>> ELSE <<Mark(1), Raise(p.body)>>,
                        <<"TypeError", "ValueError">>, <<Mark(4)>>)>>
      [] p.inCallee -> <<CallStmt("f")>>
      [] OTHER -> Withs(p)

(* A program of kind "defaults":                                            *)
(*     def f(a, p1=d1(), p2=d2()): print(p1); print(p2)                    *)
(*     f(v0, ...)                                                          *)
(* p.items[i] is what the caller supplies for pi, KWARGS_VAL(0) standing   *)
(* for nothing supplied; the values supplied are passed by position, or by *)
(* keyword when p.multi.                                                   *)
ParamName(i) == "p" \o ToString(i)
ValueName(i) == "v" \o ToString(i)
DefaultName(i) == "d" \o ToString(i)
OperandName(i) == "e" \o ToString(i)
Supplied(p) ==
    SelectSeq([i \in 1..Len(p.items) |-> i], LAMBDA i : p.items[i] # KWARGS_VAL(0))

DefaultsSource(p) ==
    [main |-> <<Stmt("expr",
                     CallKw("f",
                            IF p.multi THEN <<"v0">>
                            ELSE <<"v0">> \o [j \in 1..Len(Supplied(p)) |->
                                                ValueName(Supplied(p)[j])],
                            IF p.multi
                            THEN [j \in 1..Len(Supplied(p)) |->
                                    [name |-> ParamName(Supplied(p)[j]),
                                     value |-> ValueName(Supplied(p)[j])]]
                            ELSE <<>>),
                     <<>>, <<>>, <<>>),
                Mark(5)>>,
     f |-> [i \in 1..Len(p.items) |->
                Stmt("expr", Call("print", <<ParamName(i)>>), <<>>, <<>>, <<>>)],
     g |-> <<>>,
     params |-> <<Param("a", NoExpr)>>
                    \o [i \in 1..Len(p.items) |-> Param(ParamName(i), Call(DefaultName(i), <<>>))]]

(* A program of kind "closure":                                             *)
(*     def f():                                                            *)
(*         let saved                                                       *)
(*         while once():                                                   *)
(*             let x = v1                                                  *)
(*             def g(): return x                                           *)
(*             saved = g                                                   *)
(*             break | continue | return saved | (nothing)                 *)
(*         let y = v2              (when p.multi)                          *)
(*         return saved                                                    *)
(*     let h = f(); let r = h(); print(r)                                  *)
(* p.body says how the captured local x leaves the stack; once() is true   *)
(* the first time it is called.                                            *)
ClosureLeave(p) ==
    CASE p.body = "break" -> <<Break>>
      [] p.body = "continue" -> <<Continue>>
      [] p.body = "return" -> <<Return(Name("saved"))>>
      [] OTHER -> <<>>

ClosureSource(p) ==
    [main |-> <<Let("h", Call("f", <<>>)), Let("r", Call("h", <<>>)),
                Stmt("expr", Call("print", <<"r">>), <<>>, <<>>, <<>>), Mark(5)>>,
     f |-> <<Let("saved", NoExpr),
             While(Call("once", <<>>),
                   <<Let("x", Name(ValueName(1))), Def("g", <<Return(Name("x"))>>),
                     Assign("saved", Name("g"))>> \o ClosureLeave(p))>>
            \o (IF p.multi THEN <<Let("y", Name(ValueName(2)))>> ELSE <<>>)
            \o <<Return(Name("saved"))>>,
     g |-> <<>>,
     params |-> <<>>]

(* A program of kind "comprehension":                                       *)
(*     def f():                                                            *)
(*         let a = [fn(x) for x in xs]                                     *)
(*         print(1)                                                        *)
(*         let b = []                                                      *)
(*         for x in xs:                                                    *)
(*             b.append(fn(x))                                             *)
(*     f()                                                                 *)
ComprehensionSource(p) ==
    [main |-> <<CallStmt("f"), Mark(5)>>,
     f |-> <<Let("a", Comprehension(Call("fn", <<"x">>), "x", Name("xs"))),
             Mark(1),
             Let("b", EmptyList),
             For("x", "xs",
                 <<Stmt("expr", Method("b", "append", Call("fn", <<"x">>)),
                        <<>>, <<>>, <<>>)>>)>>,
     g |-> <<>>,
     params |-> <<>>]

(* A program of kind "loopwith":                                            *)
(*     def f():                                                            *)
(*         while once():                                                   *)
(*             with M1 as m1:                                              *)
(*                 print(1)                                                *)
(*                 break | continue | (nothing)                            *)
(*             print(2)                                                    *)
(*         print(3)                                                        *)
(*     f(); print(5)                                                       *)
(* p.body says how the with body is left.                                  *)
LoopWithSource(p) ==
    [main |-> <<CallStmt("f"), Mark(5)>>,
     f |-> <<While(Call("once", <<>>),
                   <<With(<<Item(ManagerName(1), "m1")>>, <<Mark(1)>> \o ClosureLeave(p)),
                     Mark(2)>>),
             Mark(3)>>,
     g |-> <<>>,
     params |-> <<>>]

(* A program of kind "loop":                                                *)
(*     def f():                                                            *)
(*         while once(): | for x in xs: | (no loop)                        *)
(*             print(1)                                                    *)
(*             break | continue                                            *)
(*             print(2)                                                    *)
(*         print(3)                                                        *)
(*     f(); print(5)                                                       *)
(* p.body names the loop and the statement, xs holds p.items.              *)
LoopBody(leave) == <<Mark(1), leave, Mark(2)>>

LoopStatements(p, leave) ==
    CASE p.body \in {"while break", "while continue"} ->
            <<While(Call("once", <<>>), LoopBody(leave))>>
      [] p.body \in {"for break", "for continue"} -> <<For("x", "xs", LoopBody(leave))>>
      [] OTHER -> LoopBody(leave)

LoopSource(p) ==
    [main |-> <<CallStmt("f"), Mark(5)>>,
     f |-> LoopStatements(p, IF p.body \in {"while break", "for break", "break"}
                             THEN Break ELSE Continue)
            \o <<Mark(3)>>,
     g |-> <<>>,
     params |-> <<>>]

Source(p) ==
    IF p.kind = "defaults" THEN DefaultsSource(p)
    ELSE IF p.kind = "loop" THEN LoopSource(p)
    ELSE IF p.kind = "loopwith" THEN LoopWithSource(p)
    ELSE IF p.kind = "comprehension" THEN ComprehensionSource(p)
    ELSE IF p.kind = "closure" THEN ClosureSource(p)
    ELSE
    [main |-> IF p.outerTry
              THEN <<Try(Core(p), <<Mark(4)>>), Mark(5)>>
              ELSE Core(p) \o <<Mark(5)>>,
     f |-> IF p.inCallee THEN Withs(p) ELSE <<>>,
     g |-> <<Raise("E")>>,
     params |-> <<>>]

(* What __exit__ of a context manager may return, and what a list may hold. *)
ExitValues == {NONE_VAL, BOOLEAN_VAL(TRUE), INTEGER_VAL(0)}
ItemValues == {NONE_VAL, INTEGER_VAL(1), OBJECT_VAL("AlwaysEqual", 0), OBJECT_VAL("NeverEqual", 0)}

SeqsUpTo(S, n) == UNION {[1..m -> S] : m \in 0..n}

WithPrograms ==
    {[kind |-> "with", outerTry |-> t, inCallee |-> c, multi |-> m, exits |-> x,
      body |-> b, items |-> <<>>] :
        t \in BOOLEAN, c \in BOOLEAN, m \in BOOLEAN, x \in SeqsUpTo(ExitValues, MaxWith),
        b \in {"pass", "raise", "callraise"}}

ForPrograms ==
    {[kind |-> "for", outerTry |-> FALSE, inCallee |-> FALSE, multi |-> FALSE,
      exits |-> <<>>, body |-> "pass", items |-> x] : x \in SeqsUpTo(ItemValues, MaxItems)}

(* exceptionFilter: a try with the clauses `except TypeError:` and           *)
(* `except ValueError:` whose body raises nothing or one of four classes.   *)
ExceptPrograms ==
    {[kind |-> "except", outerTry |-> FALSE, inCallee |-> FALSE, multi |-> FALSE,
      exits |-> <<>>, body |-> b, items |-> <<>>] :
        b \in {"pass", "TypeError", "ValueError", "SpecialException", "NameError"}}

(* What a caller passes explicitly, and the programs of kind "defaults":    *)
(* by position the parameters supplied are the first ones.                  *)
PassedValues == {NONE_VAL, INTEGER_VAL(0), BOOLEAN_VAL(FALSE), OBJECT_VAL("AlwaysEqual", 0)}

DefaultsPrograms ==
    {p \in [kind : {"defaults"}, outerTry : {FALSE}, inCallee : {FALSE}, multi : BOOLEAN,
            exits : {<<>>}, body : {"pass"},
            items : SeqsUpTo(PassedValues \cup {KWARGS_VAL(0)}, MaxDefaults)] :
        /\ p.multi => Supplied(p) # <<>>
        /\ ~p.multi => \A i \in 1..Len(p.items) :
                            p.items[i] = KWARGS_VAL(0) =>
                                \A j \in i..Len(p.items) : p.items[j] = KWARGS_VAL(0)}

(* The programs of kind "closure": x holds items[1], y holds items[2].     *)
CapturedValues == {INTEGER_VAL(41), INTEGER_VAL(42), NONE_VAL}

ClosurePrograms ==
    {p \in [kind : {"closure"}, outerTry : {FALSE}, inCallee : {FALSE}, multi : BOOLEAN,
            exits : {<<>>}, body : {"scope", "break", "continue", "return"},
            items : [1..2 -> CapturedValues]] :
        p.items[1] # p.items[2]}

(* A program of kind "expression" is one line of tokens, print(EXPR):      *)
(*     v1 ** v2 ** v3                                   (body "**")        *)
(*     e1() if e2() else e3()                           (body "if")        *)
(*     e1() if e2() else e3() if e4() else e5()         (body "if if")     *)
(*     v1 < v2, v1 <= v2, v1 > v2, v1 >= v2             (body the operator)*)
(* vi is the global that holds items[i], ei() prints its call and returns  *)
(* items[i].                                                               *)
Operand(i) == <<OperandName(i), "(", ")">>

ExpressionTokens(p) ==
    <<"print", "(">>
    \o (CASE p.body = "**" -> <<ValueName(1), "**", ValueName(2), "**", ValueName(3)>>
          [] p.body = "if" -> Operand(1) \o <<"if">> \o Operand(2) \o <<"else">> \o Operand(3)
          [] p.body = "if if" ->
                Operand(1) \o <<"if">> \o Operand(2) \o <<"else">> \o Operand(3)
                    \o <<"if">> \o Operand(4) \o <<"else">> \o Operand(5)
          [] OTHER -> <<ValueName(1), p.body, ValueName(2)>>)
    \o <<")", "EOL">>

Expression(body, items) ==
    [kind |-> "expression", outerTry |-> FALSE, inCallee |-> FALSE, multi |-> FALSE,
     exits |-> <<>>, body |-> body, items |-> items]

Exponents == {INTEGER_VAL(1), INTEGER_VAL(2)}
Numbers == {INTEGER_VAL(41), INTEGER_VAL(42), INTEGER_VAL(43)}
Foo == OBJECT_VAL("Foo", 42)

ExpressionPrograms ==
    {Expression("**", x) : x \in [1..3 -> Exponents]}
    \cup {Expression("if", <<INTEGER_VAL(1), BOOLEAN_VAL(c), INTEGER_VAL(2)>>) : c \in BOOLEAN}
    \cup {Expression("if if", <<INTEGER_VAL(1), BOOLEAN_VAL(c), INTEGER_VAL(2), BOOLEAN_VAL(d),
                                INTEGER_VAL(3)>>) : c \in BOOLEAN, d \in BOOLEAN}
    \cup {Expression(op, x) : op \in {"<", "<=", ">", ">="},
                              x \in {<<Foo, n>> : n \in Numbers} \cup {<<n, Foo>> : n \in Numbers}}

(* The programs of kind "loopwith"; exits[1] is what __exit__ returns.      *)
LoopWithPrograms ==
    {[kind |-> "loopwith", outerTry |-> FALSE, inCallee |-> FALSE, multi |-> FALSE,
      exits |-> <<x>>, body |-> b, items |-> <<>>] :
        x \in ExitValues, b \in {"scope", "break", "continue"}}

(* The programs of kind "loop"; the list of a for loop holds integers.      *)
LoopPrograms ==
    {[kind |-> "loop", outerTry |-> FALSE, inCallee |-> FALSE, multi |-> FALSE,
      exits |-> <<>>, body |-> b, items |-> x] :
        b \in {"while break", "while continue", "for break", "for continue",
                "break", "continue"},
        x \in SeqsUpTo({INTEGER_VAL(7)}, MaxItems)}

ComprehensionPrograms ==
    {[kind |-> "comprehension", outerTry |-> FALSE, inCallee |-> FALSE, multi |-> FALSE,
      exits |-> <<>>, body |-> "pass", items |-> x] : x \in SeqsUpTo(ItemValues, MaxItems)}

Programs ==
    {p \in WithPrograms : p.multi => Len(p.exits) >= 2} \cup ForPrograms \cup ExceptPrograms
        \cup DefaultsPrograms \cup ClosurePrograms \cup ComprehensionPrograms
        \cup ExpressionPrograms \cup LoopWithPrograms \cup LoopPrograms

-----------------------------------------------------------------------------
(* The global namespace of the running module.                             *)
FunctionIndex(n) == CASE n = "main" -> 1 [] n = "f" -> 2 [] OTHER -> 3

Global(n) ==
    CASE n \in {"main", "f", "g"} -> OBJECT_VAL("function", FunctionIndex(n))
      [] n = "print" -> OBJECT_VAL("native", 0)
      [] n = "E" -> OBJECT_VAL("ValueError", 0)
      [] n = "xs" -> OBJECT_VAL("list", 0)
      [] n = "once" -> OBJECT_VAL("once", 0)
      [] n = "fn" -> OBJECT_VAL("fn", 0)
      [] n = "listOf" -> OBJECT_VAL("listOf", 0)
      [] n = "v0" -> INTEGER_VAL(1)
      [] \E i \in 1..Len(prog.items) : n = ValueName(i) ->
            prog.items[CHOOSE i \in 1..Len(prog.items) : n = ValueName(i)]
      [] \E i \in 1..Len(prog.items) : n = OperandName(i) ->
            OBJECT_VAL("operand", CHOOSE i \in 1..Len(prog.items) : n = OperandName(i))
      [] \E i \in 1..Len(prog.items) : n = DefaultName(i) ->
            OBJECT_VAL("default", CHOOSE i \in 1..Len(prog.items) : n = DefaultName(i))
      [] \E i \in 1..Len(prog.exits) : n = ManagerName(i) ->
            OBJECT_VAL("Context", CHOOSE i \in 1..Len(prog.exits) : n = ManagerName(i))
      [] OTHER -> INTEGER_VAL(CHOOSE i \in 1..(10 + MaxWith + 1) : n = MarkName(i))

(* Log entries: a print of value a, or __enter__ / __exit__ of manager o;  *)
(* for __exit__, a is the exception value passed (None on a normal exit).  *)
Event(ev, o, a) == [ev |-> ev, o |-> o, a |-> a]

-----------------------------------------------------------------------------
(* krk_valuesEqual (value.c).  A user-defined __eq__ is the class's _eq    *)
(* slot: AlwaysEqual's returns True, NeverEqual's False; the other classes *)
(* of the model have none.                                                 *)
ClassEq(a) ==
    CASE a.t = "obj" /\ a.s = "AlwaysEqual" -> BOOLEAN_VAL(TRUE)
      [] a.t = "obj" /\ a.s = "NeverEqual" -> BOOLEAN_VAL(FALSE)
      [] OTHER -> KWARGS_VAL(-1)

HasClassEq(a) == a.t = "obj" /\ a.s \in {"AlwaysEqual", "NeverEqual"}

(* krk_valuesEqual without the line that makes a Kwargs value unequal to    *)
(* every value of another type.                                             *)
krk_valuesEqual_kwargs(a, b) ==
    IF a.t = b.t /\ a.t \in {"bool", "kwargs", "int"} THEN a.v = b.v
    ELSE IF a.t = b.t /\ a.t = "none" THEN TRUE
    ELSE IF a.t = b.t /\ a.t = "handler" THEN FALSE
    ELSE IF a.t = b.t /\ IS_OBJECT(a) /\ a = b THEN TRUE
    ELSE IF ~IS_OBJECT(a) /\ ~IS_OBJECT(b)
         THEN a.t \in {"int", "bool"} /\ b.t \in {"int", "bool"} /\ a.v = b.v
    ELSE IF HasClassEq(a)
         THEN IS_BOOLEAN(ClassEq(a)) /\ ClassEq(a).v = 1
    ELSE FALSE

krk_valuesEqual(a, b) ==
    IF a.t = b.t /\ a.t \in {"bool", "kwargs", "int"} THEN a.v = b.v
    ELSE IF a.t = b.t /\ a.t = "none" THEN TRUE
    ELSE IF a.t = b.t /\ a.t = "handler" THEN FALSE
    ELSE IF a.t = b.t /\ IS_OBJECT(a) /\ a = b THEN TRUE
    ELSE IF IS_KWARGS(a) \/ IS_KWARGS(b) THEN FALSE
    ELSE IF ~IS_OBJECT(a) /\ ~IS_OBJECT(b)
         THEN a.t \in {"int", "bool"} /\ b.t \in {"int", "bool"} /\ a.v = b.v
    ELSE IF HasClassEq(a)
         THEN IS_BOOLEAN(ClassEq(a)) /\ ClassEq(a).v = 1
    ELSE FALSE

krk_valuesSame(a, b) ==
    IF a.t # b.t THEN FALSE
    ELSE IF IS_OBJECT(a) THEN a = b
    ELSE krk_valuesEqual(a, b)

-----------------------------------------------------------------------------
(* The bytecode machine.  stack[i + 1] is slot i of the thread's value     *)
(* stack; a frame holds its closure (the index of its chunk), its ip, its  *)
(* slot base and the slot its result goes to.                              *)

frame == frames[Len(frames)]
chunk == chunks[frame.closure]
READ_BYTE(n) == chunk.code[frame.ip + n + 1]
READ_SHORT == READ_BYTE(1) * 256 + READ_BYTE(2)
krk_peek(n) == stack[Len(stack) - n]
Popped(n) == SubSeq(stack, 1, Len(stack) - n)
Running(op) ==
    /\ pc = "run"
    /\ ~hasException
    /\ frames # <<>>
    /\ frame.ip < Len(chunk.code)
    /\ READ_BYTE(0) = op
Advance(n) == [frames EXCEPT ![Len(frames)].ip = @ + n]

krk_isFalsey(a) ==
    \/ IS_NONE(a)
    \/ (IS_BOOLEAN(a) \/ IS_INTEGER(a)) /\ a.v = 0

(* krk_compile: every def of the module is compiled; a syntax error in any *)
(* of them leaves no function to run.  Of main, f and g only f has         *)
(* functions nested in it.                                                 *)
krk_compile(p) ==
    LET src == Source(p)
    IN <<function(<<>>, src.main), function(src.params, src.f), function(<<>>, src.g)>>

Compile ==
    /\ pc = "compile"
    /\ prog.kind # "expression"
    /\ LET cs == krk_compile(prog) IN
       IF \E i \in 1..Len(cs) : cs[i].hadError
       THEN /\ pc' = "error"
            /\ UNCHANGED <<chunks, stack, frames>>
       ELSE /\ pc' = "run"
            /\ chunks' = [i \in 1..Len(cs) |-> KrkFunction(cs[i])] \o cs[2].functions
            /\ stack' = <<Global("main")>>
            /\ frames' = <<[closure |-> 1, ip |-> 0, slots |-> 1, outSlots |-> 0, env |-> 0]>>
    /\ UNCHANGED <<prog, hasException, currentException, log, iterPos, gen, pending, hist, heap, static>>

OpNone ==
    /\ Running(OP_NONE)
    /\ stack' = Append(stack, NONE_VAL)
    /\ frames' = Advance(1)
    /\ UNCHANGED <<prog, pc, chunks, hasException, currentException, log, iterPos, gen, pending, hist, heap, static>>

OpPop ==
    /\ Running(OP_POP)
    /\ stack' = Popped(1)
    /\ frames' = Advance(1)
    /\ UNCHANGED <<prog, pc, chunks, hasException, currentException, log, iterPos, gen, pending, hist, heap, static>>

OpConstant ==
    /\ Running(OP_CONSTANT)
    /\ stack' = Append(stack, chunk.constants[READ_BYTE(1) + 1])
    /\ frames' = Advance(2)
    /\ UNCHANGED <<prog, pc, chunks, hasException, currentException, log, iterPos, gen, pending, hist, heap, static>>

(* KWARGS n: the sentinel that tells CALL how many keyword arguments are   *)
(* below it.                                                               *)
OpKwargs ==
    /\ Running(OP_KWARGS)
    /\ stack' = Append(stack, KWARGS_VAL(READ_BYTE(1)))
    /\ frames' = Advance(2)
    /\ UNCHANGED <<prog, pc, chunks, hasException, currentException, log, iterPos, gen, pending, hist, heap, static>>

OpGetGlobal ==
    /\ Running(OP_GET_GLOBAL)
    /\ stack' = Append(stack, Global(chunk.constants[READ_BYTE(1) + 1].s))
    /\ frames' = Advance(2)
    /\ UNCHANGED <<prog, pc, chunks, hasException, currentException, log, iterPos, gen, pending, hist, heap, static>>

OpGetLocal ==
    /\ Running(OP_GET_LOCAL)
    /\ stack' = Append(stack, stack[frame.slots + READ_BYTE(1) + 1])
    /\ frames' = Advance(2)
    /\ UNCHANGED <<prog, pc, chunks, hasException, currentException, log, iterPos, gen, pending, hist, heap, static>>

OpSetLocal ==
    /\ Running(OP_SET_LOCAL)
    /\ stack' = [stack EXCEPT ![frame.slots + READ_BYTE(1) + 1] = krk_peek(0)]
    /\ frames' = Advance(2)
    /\ UNCHANGED <<prog, pc, chunks, hasException, currentException, log, iterPos, gen, pending, hist, heap, static>>

(* GET_PROPERTY: the model's objects have one property, a list's __iter__. *)
OpGetProperty ==
    /\ Running(OP_GET_PROPERTY)
    /\ LET name == chunk.constants[READ_BYTE(1) + 1].s
           obj == krk_peek(0)
       IN IF obj.t = "obj" /\ obj.s = "list" /\ name = "__iter__"
          THEN /\ stack' = Append(Popped(1), OBJECT_VAL("list.__iter__", obj.v))
               /\ UNCHANGED <<hasException, currentException>>
          ELSE IF obj.t = "obj" /\ obj.s = "list" /\ obj.v > 0 /\ name = "append"
          THEN /\ stack' = Append(Popped(1), OBJECT_VAL("list.append", obj.v))
               /\ UNCHANGED <<hasException, currentException>>
          ELSE /\ stack' = Popped(1)
               /\ hasException' = TRUE
               /\ currentException' = OBJECT_VAL("AttributeError", 0)
    /\ frames' = Advance(2)
    /\ UNCHANGED <<prog, pc, chunks, log, iterPos, gen, pending, hist, heap, static>>

OpEqual ==
    /\ Running(OP_EQUAL)
    /\ stack' = Append(Popped(2), BOOLEAN_VAL(krk_valuesEqual(krk_peek(1), krk_peek(0))))
    /\ frames' = Advance(1)
    /\ UNCHANGED <<prog, pc, chunks, hasException, currentException, log, iterPos, gen, pending, hist, heap, static>>

OpJump ==
    /\ Running(OP_JUMP)
    /\ frames' = Advance(3 + READ_SHORT)
    /\ UNCHANGED <<prog, pc, chunks, stack, hasException, currentException, log, iterPos, gen, pending, hist, heap, static>>

(* A jump has taken ip past the end of the chunk: what the thread reads    *)
(* there as instructions is not the program's; the run is followed no      *)
(* further.                                                                *)
OutsideChunk ==
    /\ pc = "run"
    /\ ~hasException
    /\ frames # <<>>
    /\ frame.ip >= Len(chunk.code)
    /\ pc' = "outside"
    /\ UNCHANGED <<prog, chunks, stack, frames, hasException, currentException, log, iterPos, gen, pending, hist, heap, static>>

(* Ordering.  Integers compare directly.  An instance's class is asked     *)
(* through its __lt__ / __gt__; the class Foo of the comparison test       *)
(* prints the call and answers for a number, NotImplemented otherwise, and *)
(* then the reflected method of the right operand is asked.                *)
NotImplemented == OBJECT_VAL("NotImplemented", 0)
IsFoo(a) == a.t = "obj" /\ a.s = "Foo"

CompareInts(name, x, y) ==
    CASE name = "__lt__" -> x < y
      [] name = "__le__" -> x <= y
      [] name = "__gt__" -> x > y
      [] OTHER -> x >= y

Reflected(name) ==
    CASE name = "__lt__" -> "__gt__"
      [] name = "__le__" -> "__ge__"
      [] name = "__gt__" -> "__lt__"
      [] OTHER -> "__le__"

Foo_compare(name, self, o) ==
    IF IS_INTEGER(o) THEN BOOLEAN_VAL(CompareInts(name, self.v, o.v)) ELSE NotImplemented

CompareCalls(name, a, b) ==
    IF IsFoo(a)
    THEN <<Event(name, a.v, b)>>
            \o (IF IsFoo(b) THEN <<Event(Reflected(name), b.v, a)>> ELSE <<>>)
    ELSE IF IsFoo(b) THEN <<Event(Reflected(name), b.v, a)>>
    ELSE <<>>

CompareResult(name, a, b) ==
    IF IS_INTEGER(a) /\ IS_INTEGER(b) THEN BOOLEAN_VAL(CompareInts(name, a.v, b.v))
    ELSE IF IsFoo(a) /\ IS_INTEGER(b) THEN Foo_compare(name, a, b)
    ELSE IF IsFoo(b) THEN Foo_compare(Reflected(name), b, a)
    ELSE NotImplemented

Compare(name) ==
    /\ log' = log \o CompareCalls(name, krk_peek(1), krk_peek(0))
    /\ IF CompareResult(name, krk_peek(1), krk_peek(0)) = NotImplemented
       THEN /\ stack' = Popped(2)
            /\ hasException' = TRUE
            /\ currentException' = OBJECT_VAL("TypeError", 0)
       ELSE /\ stack' = Append(Popped(2), CompareResult(name, krk_peek(1), krk_peek(0)))
            /\ UNCHANGED <<hasException, currentException>>
    /\ frames' = Advance(1)
    /\ UNCHANGED <<prog, pc, chunks, iterPos, gen, pending, hist, heap, static>>

OpLess == Running(OP_LESS) /\ Compare("__lt__")

OpGreater == Running(OP_GREATER) /\ Compare("__gt__")

OpNot ==
    /\ Running(OP_NOT)
    /\ stack' = Append(Popped(1), BOOLEAN_VAL(krk_isFalsey(krk_peek(0))))
    /\ frames' = Advance(1)
    /\ UNCHANGED <<prog, pc, chunks, hasException, currentException, log, iterPos, gen, pending, hist, heap, static>>

(* POW on two integers.                                                    *)
OpPow ==
    /\ Running(OP_POW)
    /\ IF IS_INTEGER(krk_peek(1)) /\ IS_INTEGER(krk_peek(0)) /\ krk_peek(0).v >= 0
       THEN /\ stack' = Append(Popped(2), INTEGER_VAL(krk_peek(1).v ^ krk_peek(0).v))
            /\ UNCHANGED <<hasException, currentException>>
       ELSE /\ stack' = Popped(2)
            /\ hasException' = TRUE
            /\ currentException' = OBJECT_VAL("TypeError", 0)
    /\ frames' = Advance(1)
    /\ UNCHANGED <<prog, pc, chunks, log, iterPos, gen, pending, hist, heap, static>>

OpJumpIfTrue ==
    /\ Running(OP_JUMP_IF_TRUE)
    /\ frames' = Advance(IF krk_isFalsey(krk_peek(0)) THEN 3 ELSE 3 + READ_SHORT)
    /\ UNCHANGED <<prog, pc, chunks, stack, hasException, currentException, log, iterPos, gen, pending, hist, heap, static>>

OpJumpIfFalse ==
    /\ Running(OP_JUMP_IF_FALSE)
    /\ frames' = Advance(IF krk_isFalsey(krk_peek(0)) THEN 3 + READ_SHORT ELSE 3)
    /\ UNCHANGED <<prog, pc, chunks, stack, hasException, currentException, log, iterPos, gen, pending, hist, heap, static>>

OpLoop ==
    /\ Running(OP_LOOP)
    /\ frames' = Advance(3 - READ_SHORT)
    /\ UNCHANGED <<prog, pc, chunks, stack, hasException, currentException, log, iterPos, gen, pending, hist, heap, static>>

(* The arguments of a call of a function with argc values above the      *)
(* callee.  With Kwargs(n) on top the n pairs of name and value below it   *)
(* are keyword arguments and the values below them positional ones.  The   *)
(* callee's slots are filled by position, then by name; a slot that gets   *)
(* no value holds the sentinel KWARGS_VAL(0).                              *)
KeywordCount == IF IS_KWARGS(krk_peek(0)) THEN krk_peek(0).v ELSE 0
PositionalCount(argc) == IF IS_KWARGS(krk_peek(0)) THEN argc - 1 - 2 * KeywordCount ELSE argc
ArgNames(fn) == fn.requiredArgNames \o fn.keywordArgNames
KeywordName(argc, j) == stack[Len(stack) - argc + PositionalCount(argc) + 2 * j - 1].s
KeywordValue(argc, j) == stack[Len(stack) - argc + PositionalCount(argc) + 2 * j]
ArgumentSlots(fn, argc) ==
    [i \in 1..Len(ArgNames(fn)) |->
        IF i <= PositionalCount(argc) THEN stack[Len(stack) - argc + i]
        ELSE IF \E j \in 1..KeywordCount : KeywordName(argc, j) = ArgNames(fn)[i]
        THEN KeywordValue(argc, CHOOSE j \in 1..KeywordCount :
                                    KeywordName(argc, j) = ArgNames(fn)[i])
        ELSE KWARGS_VAL(0)]
ArgumentsFit(fn, argc) ==
    /\ PositionalCount(argc) <= Len(ArgNames(fn))
    /\ \A j \in 1..KeywordCount :
            \E i \in (PositionalCount(argc) + 1)..Len(ArgNames(fn)) :
                KeywordName(argc, j) = ArgNames(fn)[i]
    /\ \A i \in 1..fn.requiredArgs : ArgumentSlots(fn, argc)[i] # KWARGS_VAL(0)

(* Lists built by the program are objects on the heap, OBJECT_VAL("list",  *)
(* i) for heap[i]; listOf makes one of its arguments and append adds one   *)
(* value at the end.  The list xs of the module is OBJECT_VAL("list", 0).  *)
krk_list_of(h, values) == Append(h, [type |-> "list", values |-> values])

Arguments(argc) == SubSeq(stack, Len(stack) - argc + 1, Len(stack))

CallHeap(argc) ==
    IF krk_peek(argc).t = "obj" /\ krk_peek(argc).s = "listOf"
    THEN krk_list_of(heap, Arguments(argc))
    ELSE IF krk_peek(argc).t = "obj" /\ krk_peek(argc).s = "list.append" /\ argc = 1
    THEN [heap EXCEPT ![krk_peek(argc).v].values = Append(@, krk_peek(0))]
    ELSE heap

(* What the function fn of the programs returns for a.                     *)
Image(a) == IF IS_INTEGER(a) THEN INTEGER_VAL(a.v + 10) ELSE a

(* CALL argc: a closure gets a frame; a native runs to completion.         *)
OpCall ==
    /\ Running(OP_CALL)
    /\ LET argc == READ_BYTE(1)
           callee == krk_peek(argc)
           next == Advance(2)
       IN CASE callee.t = "obj" /\ callee.s = "function" /\ ArgumentsFit(chunks[callee.v], argc) ->
                 /\ frames' = Append(next, [closure |-> callee.v, ip |-> 0,
                                            slots |-> Len(stack) - argc,
                                            outSlots |-> Len(stack) - argc - 1, env |-> 0])
                 /\ stack' = Popped(argc) \o ArgumentSlots(chunks[callee.v], argc)
                 /\ UNCHANGED <<log, iterPos, hasException, currentException>>
            [] callee.t = "obj" /\ callee.s = "closure"
                    /\ ArgumentsFit(chunks[heap[callee.v].function], argc) ->
                 /\ frames' = Append(next, [closure |-> heap[callee.v].function, ip |-> 0,
                                            slots |-> Len(stack) - argc,
                                            outSlots |-> Len(stack) - argc - 1,
                                            env |-> callee.v])
                 /\ stack' = Popped(argc) \o ArgumentSlots(chunks[heap[callee.v].function], argc)
                 /\ UNCHANGED <<log, iterPos, hasException, currentException>>
            [] callee.t = "obj" /\ callee.s = "operand" ->
                 /\ frames' = next
                 /\ log' = Append(log, Event("operand", callee.v, NONE_VAL))
                 /\ stack' = Append(Popped(argc + 1), prog.items[callee.v])
                 /\ UNCHANGED <<iterPos, hasException, currentException>>
            [] callee.t = "obj" /\ callee.s = "once" ->
                 /\ frames' = next
                 /\ stack' = Append(Popped(argc + 1), BOOLEAN_VAL(iterPos = 0))
                 /\ iterPos' = iterPos + 1
                 /\ UNCHANGED <<log, hasException, currentException>>
            [] callee.t = "obj" /\ callee.s = "fn" /\ argc = 1 ->
                 /\ frames' = next
                 /\ log' = Append(log, Event("fn", 0, krk_peek(0)))
                 /\ stack' = Append(Popped(argc + 1), Image(krk_peek(0)))
                 /\ UNCHANGED <<iterPos, hasException, currentException>>
            [] callee.t = "obj" /\ callee.s = "listOf" ->
                 /\ frames' = next
                 /\ stack' = Append(Popped(argc + 1), OBJECT_VAL("list", Len(heap) + 1))
                 /\ UNCHANGED <<log, iterPos, hasException, currentException>>
            [] callee.t = "obj" /\ callee.s = "list.append" /\ argc = 1 ->
                 /\ frames' = next
                 /\ stack' = Append(Popped(argc + 1), NONE_VAL)
                 /\ UNCHANGED <<log, iterPos, hasException, currentException>>
            [] callee.t = "obj" /\ callee.s = "default" ->
                 /\ frames' = next
                 /\ log' = Append(log, Event("default", callee.v, NONE_VAL))
                 /\ stack' = Append(Popped(argc + 1), INTEGER_VAL(100 + callee.v))
                 /\ UNCHANGED <<iterPos, hasException, currentException>>
            [] callee.t = "obj" /\ callee.s = "native" ->
                 /\ frames' = next
                 /\ log' = Append(log, Event("print", 0, krk_peek(0)))
                 /\ stack' = Append(Popped(argc + 1), NONE_VAL)
                 /\ UNCHANGED <<iterPos, hasException, currentException>>
            [] callee.t = "obj" /\ callee.s = "list.__iter__" ->
                 /\ frames' = next
                 /\ stack' = Append(Popped(argc + 1), OBJECT_VAL("listiterator", 0))
                 /\ iterPos' = 0
                 /\ UNCHANGED <<log, hasException, currentException>>
            [] callee.t = "obj" /\ callee.s = "listiterator" ->
                 /\ frames' = next
                 /\ stack' = Append(Popped(argc + 1),
                                    IF iterPos < Len(prog.items)
                                    THEN prog.items[iterPos + 1] ELSE callee)
                 /\ iterPos' = IF iterPos < Len(prog.items) THEN iterPos + 1 ELSE iterPos
                 /\ UNCHANGED <<log, hasException, currentException>>
            [] OTHER ->
                 /\ frames' = next
                 /\ hasException' = TRUE
                 /\ currentException' = OBJECT_VAL("TypeError", 0)
                 /\ UNCHANGED <<stack, log, iterPos>>
    /\ heap' = CallHeap(READ_BYTE(1))
    /\ UNCHANGED <<prog, pc, chunks, gen, pending, hist, static>>

(* INC slot: the integer in the local is one more.                         *)
OpInc ==
    /\ Running(OP_INC)
    /\ stack' = [stack EXCEPT ![frame.slots + READ_BYTE(1) + 1].v = @ + 1]
    /\ frames' = Advance(2)
    /\ UNCHANGED <<prog, pc, chunks, hasException, currentException, log, iterPos, gen, pending, hist, heap, static>>

(* CALL_STACK: the argument count is popped from the stack, then the call  *)
(* is that of CALL; what is called here is listOf.                         *)
OpCallStack ==
    /\ Running(OP_CALL_STACK)
    /\ IF krk_peek(krk_peek(0).v + 1).t = "obj" /\ krk_peek(krk_peek(0).v + 1).s = "listOf"
       THEN /\ heap' = krk_list_of(heap, SubSeq(stack, Len(stack) - krk_peek(0).v,
                                                Len(stack) - 1))
            /\ stack' = Append(Popped(krk_peek(0).v + 2), OBJECT_VAL("list", Len(heap) + 1))
            /\ UNCHANGED <<hasException, currentException>>
       ELSE /\ stack' = Popped(1)
            /\ hasException' = TRUE
            /\ currentException' = OBJECT_VAL("TypeError", 0)
            /\ UNCHANGED heap
    /\ frames' = Advance(1)
    /\ UNCHANGED <<prog, pc, chunks, log, iterPos, gen, pending, hist, static>>

NULL == -1

(* Upvalues and closures are objects on the heap.  An upvalue is open      *)
(* while location is the index in the stack of the slot it refers to, and  *)
(* closed (location NULL) once the slot's value has been copied into it.   *)
Slot(i) == IF i <= Len(stack) THEN stack[i] ELSE NONE_VAL
IsOpen(o) == o.type = "upvalue" /\ o.location # NULL
closeUpvalues(h, last) ==
    [u \in 1..Len(h) |->
        IF IsOpen(h[u]) /\ h[u].location >= last
        THEN [h[u] EXCEPT !.closed = Slot(h[u].location), !.location = NULL]
        ELSE h[u]]

(* captureUpvalue for the upvalues of a closure, one after the other: the  *)
(* open upvalue of the slot if there is one, else a new one; an upvalue    *)
(* that is not a local of the frame is the frame's closure's.              *)
RECURSIVE captureUpvalues(_, _, _)
captureUpvalues(h, refs, count) ==
    IF Len(refs) = count THEN [heap |-> h, upvalues |-> refs]
    ELSE IF READ_BYTE(2 + 2 * Len(refs)) = 0
    THEN captureUpvalues(h, Append(refs, h[frame.env].upvalues[READ_BYTE(3 + 2 * Len(refs)) + 1]),
                         count)
    ELSE IF \E u \in 1..Len(h) :
                IsOpen(h[u]) /\ h[u].location = frame.slots + READ_BYTE(3 + 2 * Len(refs)) + 1
    THEN captureUpvalues(h,
            Append(refs, CHOOSE u \in 1..Len(h) :
                            IsOpen(h[u])
                            /\ h[u].location = frame.slots + READ_BYTE(3 + 2 * Len(refs)) + 1),
            count)
    ELSE captureUpvalues(
            Append(h, [type |-> "upvalue",
                       location |-> frame.slots + READ_BYTE(3 + 2 * Len(refs)) + 1,
                       closed |-> NONE_VAL]),
            Append(refs, Len(h) + 1), count)

NewClosure(fn, captured) ==
    Append(captured.heap, [type |-> "closure", function |-> fn,
                           upvalues |-> captured.upvalues])

(* CLOSURE: the function constant becomes a closure with its upvalues.     *)
OpClosure ==
    /\ Running(OP_CLOSURE)
    /\ LET fn == chunk.constants[READ_BYTE(1) + 1].v IN
        /\ heap' = NewClosure(fn,
                              captureUpvalues(heap, <<>>, chunks[fn].upvalueCount))
        /\ stack' = Append(stack, OBJECT_VAL("closure", Len(heap')))
        /\ frames' = Advance(2 + 2 * chunks[fn].upvalueCount)
    /\ UNCHANGED <<prog, pc, chunks, hasException, currentException, log, iterPos, gen, pending, hist, static>>

OpGetUpvalue ==
    /\ Running(OP_GET_UPVALUE)
    /\ LET upvalue == heap[heap[frame.env].upvalues[READ_BYTE(1) + 1]] IN
        stack' = Append(stack, IF IsOpen(upvalue) THEN Slot(upvalue.location)
                               ELSE upvalue.closed)
    /\ frames' = Advance(2)
    /\ UNCHANGED <<prog, pc, chunks, hasException, currentException, log, iterPos, gen, pending, hist, heap, static>>

(* CLOSE_UPVALUE: the upvalues of the top slot are closed, then it is      *)
(* popped.                                                                 *)
OpCloseUpvalue ==
    /\ Running(OP_CLOSE_UPVALUE)
    /\ heap' = closeUpvalues(heap, Len(stack))
    /\ stack' = Popped(1)
    /\ frames' = Advance(1)
    /\ UNCHANGED <<prog, pc, chunks, hasException, currentException, log, iterPos, gen, pending, hist, static>>

(* RETURN: the upvalues of the frame's slots are closed, the frame is      *)
(* dropped and the result replaces the callee.                             *)
OpReturn ==
    /\ Running(OP_RETURN)
    /\ heap' = closeUpvalues(heap, frame.slots + 1)
    /\ frames' = SubSeq(frames, 1, Len(frames) - 1)
    /\ stack' = Append(SubSeq(stack, 1, frame.outSlots), krk_peek(0))
    /\ pc' = IF Len(frames) = 1 THEN "done" ELSE pc
    /\ UNCHANGED <<prog, chunks, hasException, currentException, log, iterPos, gen, pending, hist, static>>

OpRaise ==
    /\ Running(OP_RAISE)
    /\ currentException' = krk_peek(0)
    /\ hasException' = TRUE
    /\ stack' = Popped(1)
    /\ frames' = Advance(1)
    /\ UNCHANGED <<prog, pc, chunks, log, iterPos, gen, pending, hist, heap, static>>

OpPushTry ==
    /\ Running(OP_PUSH_TRY)
    /\ stack' = Append(stack, HANDLER_VAL(OP_PUSH_TRY, frame.ip + 3 + READ_SHORT))
    /\ frames' = Advance(3)
    /\ UNCHANGED <<prog, pc, chunks, hasException, currentException, log, iterPos, gen, pending, hist, heap, static>>

(* PUSH_WITH: __enter__ of the context manager on top of the stack runs,   *)
(* then the handler is pushed.                                             *)
OpPushWith ==
    /\ Running(OP_PUSH_WITH)
    /\ log' = Append(log, Event("enter", krk_peek(0).v, NONE_VAL))
    /\ stack' = Append(stack, HANDLER_VAL(OP_PUSH_WITH, frame.ip + 3 + READ_SHORT))
    /\ frames' = Advance(3)
    /\ UNCHANGED <<prog, pc, chunks, hasException, currentException, iterPos, gen, pending, hist, heap, static>>

(* CLEANUP_WITH: the handler on top of the stack says how the body was     *)
(* left.  Installed by PUSH_WITH and untouched: a normal exit,             *)
(* __exit__(None, None, None).  Marked OP_RAISE by the unwinder: an        *)
(* exceptional exit, __exit__(type, value, traceback), whose truthy result *)
(* clears the exception and whose falsy result raises it again.            *)
OpCleanupWith ==
    /\ Running(OP_CLEANUP_WITH)
    /\ LET handler == krk_peek(0)
           contextManager == krk_peek(1)
           result == prog.exits[contextManager.v]
       IN IF handler.k = OP_RAISE
          THEN /\ log' = Append(log, Event("exit", contextManager.v, currentException))
               /\ hasException' = krk_isFalsey(result)
               /\ currentException' = IF krk_isFalsey(result) THEN currentException ELSE NONE_VAL
          ELSE /\ log' = Append(log, Event("exit", contextManager.v, NONE_VAL))
               /\ UNCHANGED <<hasException, currentException>>
    /\ frames' = Advance(1)
    /\ UNCHANGED <<prog, pc, chunks, stack, iterPos, gen, pending, hist, heap, static>>

(* Unwinding: the topmost installed handler (try or with) on the stack     *)
(* takes the exception; every frame above the one that holds it is         *)
(* dropped.  A try handler's slot receives the exception; a with handler   *)
(* stays, marked OP_RAISE.  With no handler left the thread ends.          *)
Installed == {i \in 1..Len(stack) : IS_HANDLER(stack[i]) /\ stack[i].k \in {OP_PUSH_TRY, OP_PUSH_WITH}}
TopHandler == CHOOSE i \in Installed : \A j \in Installed : j <= i
FrameOf(i) == CHOOSE n \in 1..Len(frames) :
                 /\ frames[n].slots < i
                 /\ \A m \in 1..Len(frames) : frames[m].slots < i => m <= n

handleException ==
    /\ pc = "run"
    /\ hasException
    /\ IF Installed = {}
       THEN /\ pc' = "done"
            /\ frames' = <<>>
            /\ UNCHANGED <<stack, hasException, currentException>>
       ELSE LET i == TopHandler
                n == FrameOf(i)
                kept == SubSeq(frames, 1, n)
            IN /\ frames' = [kept EXCEPT ![n].ip = stack[i].v]
               /\ stack' = IF stack[i].k = OP_PUSH_TRY
                           THEN Append(SubSeq(stack, 1, i - 1), currentException)
                           ELSE Append(SubSeq(stack, 1, i - 1), HANDLER_VAL(OP_RAISE, stack[i].v))
               /\ hasException' = FALSE
               /\ UNCHANGED <<pc, currentException>>
    /\ UNCHANGED <<prog, chunks, log, iterPos, gen, pending, hist, heap, static>>

-----------------------------------------------------------------------------
(* Generator objects (obj_gen.c).  A generator is the record of struct      *)
(* generator; its closure is the body of the generator function, a list of  *)
(* instructions, and its ip an offset into that list (NULL when done).      *)
(* A thread th is the value stack and the exception state a native method   *)
(* works on, with the history hist of what the body has executed.           *)

SELF == OBJECT_VAL("generator", 0)

Top(st) == st[Len(st)]
Pop(st) == SubSeq(st, 1, Len(st) - 1)

krk_buildGenerator(closure, argsIn, argCount) ==
    [closure |-> closure, args |-> SubSeq(argsIn, 1, argCount), argCount |-> argCount,
     ip |-> 0, running |-> FALSE, started |-> FALSE, result |-> NONE_VAL]

(* _set_generator_done that leaves the ip as it is.                         *)
_set_generator_done_skipped(self) == self

_set_generator_done(self) == [self EXCEPT !.ip = NULL]

(* krk_runtimeError: the exception becomes the thread's current exception;  *)
(* the value returned is None.                                              *)
krk_runtimeError(th, type) ==
    [th EXCEPT !.hasException = TRUE, !.currentException = OBJECT_VAL(type, 0)]

(* krk_runNext: the frame on top runs from its ip until it yields, returns  *)
(* or raises.  A yield returns the value on top of the stack and leaves the *)
(* frame's values where they are; a return cuts the stack back to the       *)
(* frame's slots, pushes the returned value and returns Kwargs(0); a raise  *)
(* sets the thread's exception.  hist counts the instructions executed      *)
(* (ran), keeps the frame's values as krk_runNext found them (resumeLive)   *)
(* and as the last yield left them (yieldLive), and how the body ended.     *)
RECURSIVE run(_, _, _, _)
run(body, ip, slots, th) ==
    LET i == body[ip + 1]
        ran == [th EXCEPT !.hist.ran = @ + 1]
    IN CASE i.op = "push" -> run(body, ip + 1, slots, [ran EXCEPT !.stack = Append(@, i.v)])
         [] i.op = "pop" -> run(body, ip + 1, slots, [ran EXCEPT !.stack = Pop(@)])
         [] i.op = "yield" ->
              [result |-> Top(th.stack), ip |-> ip + 1,
               th |-> [ran EXCEPT !.hist.yieldLive =
                                      SubSeq(th.stack, slots + 1, Len(th.stack))]]
         [] i.op = "return" ->
              [result |-> KWARGS_VAL(0), ip |-> ip + 1,
               th |-> [ran EXCEPT !.stack = Append(SubSeq(@, 1, slots), Top(th.stack)),
                                  !.hist.ended = "return",
                                  !.hist.value = Top(th.stack)]]
         [] OTHER ->
              [result |-> NONE_VAL, ip |-> ip + 1,
               th |-> [ran EXCEPT !.stack = SubSeq(@, 1, slots),
                                  !.hasException = TRUE,
                                  !.currentException = Top(th.stack),
                                  !.hist.ended = "raise"]]

krk_runNext(body, ip, slots, th) ==
    run(body, ip, slots,
        [th EXCEPT !.hist.resumeLive = SubSeq(th.stack, slots + 1, Len(th.stack)),
                   !.hist.resumes = @ + 1])

(* The push of the saved values without the pop of the topmost one.        *)
generator__call___push_unpopped(self, argc, argv1, th) ==
    IF self.started
    THEN [th EXCEPT !.stack = Append(@ \o self.args,
                                     IF argc > 1 THEN argv1 ELSE NONE_VAL)]
    ELSE [th EXCEPT !.stack = @ \o self.args]

(* generator.__call__, "Stick our stack on their stack": the saved values   *)
(* are pushed; on a generator that has started, the topmost is replaced by  *)
(* the argument (None without one).                                         *)
generator__call___push(self, argc, argv1, th) ==
    IF self.started
    THEN [th EXCEPT !.stack = Append(Pop(@ \o self.args),
                                     IF argc > 1 THEN argv1 ELSE NONE_VAL)]
    ELSE [th EXCEPT !.stack = @ \o self.args]

(* The Kwargs(0) branch storing the sentinel instead of the popped value.  *)
generator__call___returned_sentinel(self, r) ==
    [self |-> _set_generator_done([self EXCEPT !.result = r.result]),
     ret |-> SELF,
     th |-> [r.th EXCEPT !.stack = Pop(@)]]

(* generator.__call__, the Kwargs(0) result: the body returned.             *)
generator__call___returned(self, r) ==
    [self |-> _set_generator_done([self EXCEPT !.result = Top(r.th.stack)]),
     ret |-> SELF,
     th |-> [r.th EXCEPT !.stack = Pop(@)]]

(* generator.__call__, "Determine the stack state", "Save stack entries".   *)
generator__call___save(self, slots, stackBefore, r) ==
    LET stackAfter == Len(r.th.stack)
        argCount == IF stackAfter > stackBefore
                    THEN self.argCount + (stackAfter - stackBefore)
                    ELSE IF stackAfter < stackBefore
                    THEN self.argCount - (stackBefore - stackAfter)
                    ELSE self.argCount
    IN [self |-> [self EXCEPT !.argCount = argCount,
                              !.args = SubSeq(r.th.stack, stackAfter - argCount + 1, stackAfter),
                              !.ip = r.ip],
        ret |-> r.result,
        th |-> [r.th EXCEPT !.stack = SubSeq(@, 1, slots)]]

(* generator.__call__ after krk_runNext; self has running = 0, started = 1. *)
generator__call___after(self, slots, stackBefore, r) ==
    IF IS_KWARGS(r.result) /\ r.result.v = 0
    THEN generator__call___returned(self, r)
    ELSE IF r.th.hasException
    THEN [self |-> _set_generator_done(self), ret |-> NONE_VAL, th |-> r.th]
    ELSE generator__call___save(self, slots, stackBefore, r)

generator__call___run(self, slots, th) ==
    generator__call___after([self EXCEPT !.running = FALSE, !.started = TRUE],
                            slots, Len(th.stack),
                            krk_runNext(self.closure, self.ip, slots, th))

generator__call__(self, argc, argv1, th) ==
    IF self.ip = NULL
    THEN [self |-> self, ret |-> SELF, th |-> th]
    ELSE generator__call___run(self, Len(th.stack),
                               generator__call___push(self, argc, argv1, th))

(* send without the check of a generator that has not started.             *)
generator_send_unchecked(self, argc, argv1, th) ==
    generator__call__(self, argc, argv1, th)

generator_send(self, argc, argv1, th) ==
    IF ~self.started /\ ~IS_NONE(argv1)
    THEN [self |-> self, ret |-> NONE_VAL, th |-> krk_runtimeError(th, "TypeError")]
    ELSE generator__call__(self, argc, argv1, th)

generator__finish__(self) == self.result

(* Generator functions.  The body is a run of yields, each yield k          *)
(* optionally with one more local pushed before it, its value (what was     *)
(* sent) then kept as a local or dropped; then a return of 9, a raise of E  *)
(* or nothing; and the None, RETURN that ends every function.               *)
Ins(op, v) == [op |-> op, v |-> v]

Segments == [extra : BOOLEAN, keep : BOOLEAN]

SegmentOps(seg, k) ==
    (IF seg.extra THEN <<Ins("push", INTEGER_VAL(7))>> ELSE <<>>)
    \o <<Ins("push", INTEGER_VAL(k)), Ins("yield", NONE_VAL)>>
    \o (IF seg.keep THEN <<>> ELSE <<Ins("pop", NONE_VAL)>>)

RECURSIVE YieldOps(_, _)
YieldOps(segs, k) ==
    IF k > Len(segs) THEN <<>>
    ELSE SegmentOps(segs[k], k) \o YieldOps(segs, k + 1)

EndOps(end) ==
    CASE end = "return" -> <<Ins("push", INTEGER_VAL(9)), Ins("return", NONE_VAL)>>
      [] end = "raise" -> <<Ins("push", OBJECT_VAL("ValueError", 0)), Ins("raise", NONE_VAL)>>
      [] OTHER -> <<>>

Body(p) ==
    YieldOps(p.segs, 1) \o EndOps(p.end)
    \o <<Ins("push", NONE_VAL), Ins("return", NONE_VAL)>>

GeneratorPrograms ==
    [kind : {"generator"}, segs : SeqsUpTo(Segments, MaxYields),
     end : {"return", "raise", "fall"}, args : {<<>>, <<INTEGER_VAL(3)>>}]

SentValues == {NONE_VAL, INTEGER_VAL(5)}

(* The caller's part of the stack when it calls into the generator.         *)
CallerStack(d) == [i \in 1..d |-> INTEGER_VAL(100 + i)]

(* The thread as a method of the generator finds it: the caller has dealt   *)
(* with any earlier exception.                                              *)
Thread(d) ==
    [stack |-> CallerStack(d), hasException |-> FALSE, currentException |-> NONE_VAL,
     hist |-> hist]

(* What the caller did last: the method, its argument, what it returned,    *)
(* and the generator and the history as they were before.                   *)
Called(name, argc, argv1, out) ==
    [name |-> name, argc |-> argc, arg |-> argv1, ret |-> out.ret,
     before |-> gen, histBefore |-> hist]

Returned(name, argc, argv1, out) ==
    /\ gen' = out.self
    /\ pending' = Called(name, argc, argv1, out)
    /\ stack' = out.th.stack
    /\ hasException' = out.th.hasException
    /\ currentException' = out.th.currentException
    /\ hist' = out.th.hist
    /\ UNCHANGED <<prog, pc, chunks, frames, log, iterPos, heap, static>>

(* g() or g(x), also what an iteration step does (g() on what __iter__      *)
(* returned, the generator itself).                                         *)
GeneratorCall ==
    /\ pc = "generator"
    /\ \E argc \in 1..2, x \in SentValues, d \in 0..MaxDepth :
          /\ argc = 1 => x = NONE_VAL
          /\ Returned("__call__", argc, x, generator__call__(gen, argc, x, Thread(d)))

GeneratorSend ==
    /\ pc = "generator"
    /\ \E x \in SentValues, d \in 0..MaxDepth :
          Returned("send", 2, x, generator_send(gen, 2, x, Thread(d)))

GeneratorFinish ==
    /\ pc = "generator"
    /\ pending' = [name |-> "__finish__", argc |-> 1, arg |-> NONE_VAL,
                   ret |-> generator__finish__(gen), before |-> gen, histBefore |-> hist]
    /\ hasException' = FALSE
    /\ currentException' = NONE_VAL
    /\ UNCHANGED <<prog, pc, chunks, stack, frames, log, iterPos, gen, hist, heap, static>>

InitGenerator ==
    /\ prog \in GeneratorPrograms
    /\ pc = "generator"
    /\ chunks = <<>>
    /\ stack = <<>>
    /\ frames = <<>>
    /\ hasException = FALSE
    /\ currentException = NONE_VAL
    /\ log = <<>>
    /\ iterPos = 0
    /\ heap = <<>>
    /\ current = <<>>
    /\ parser = <<>>
    /\ _compilerLock = 0
    /\ compiling = <<>>
    /\ gen = krk_buildGenerator(Body(prog), prog.args, Len(prog.args))
    /\ hist = [ran |-> 0, resumes |-> 0, ended |-> "no", value |-> NONE_VAL,
               yieldLive |-> <<>>, resumeLive |-> <<>>]
    /\ pending = [name |-> "", argc |-> 0, arg |-> NONE_VAL, ret |-> NONE_VAL,
                  before |-> gen, histBefore |-> hist]

NextGenerator ==
    \/ GeneratorCall
    \/ GeneratorSend
    \/ GeneratorFinish

SpecGenerator == InitGenerator /\ [][NextGenerator]_vars

-----------------------------------------------------------------------------
(* generator.__call__ on the thread's frame stack, a step at a time.  The  *)
(* frame stack has KRK_CALL_FRAMES_MAX entries; a frame is the closure it  *)
(* runs ("caller" or "generator") and its ip.  The body of the generator   *)
(* function is a run of yields and of calls of the generator itself        *)
(* (resume), then a return.  hist counts the calls made by the caller      *)
(* outside the generator and keeps the highest frame index written.        *)
KRK_CALL_FRAMES_MAX == 3
MaxBody == 2
MaxResumes == 3

ResumePrograms ==
    {[kind |-> "resume", body |-> b \o <<"return">>] :
        b \in SeqsUpTo({"yield", "resume"}, MaxBody)}

IsBody(fr) == fr.closure = "generator"
InBody(op) == frames # <<>> /\ IsBody(Top(frames)) /\ prog.body[Top(frames).ip + 1] = op

(* The native returns to its caller: a body that called the generator goes *)
(* on after the call.                                                      *)
ReturnToCaller(fs) ==
    IF fs # <<>> /\ IsBody(Top(fs)) THEN [fs EXCEPT ![Len(fs)].ip = @ + 1] ELSE fs

(* "Prepare frame": frames[frameCount++] is written, whatever frameCount   *)
(* is, and the body is entered at the saved ip with running = 1.           *)
generator__call___frame(fs, self) == Append(fs, [closure |-> "generator", ip |-> self.ip])

(* generator.__call__ up to krk_runNext, called from outside the           *)
(* generator or by the body itself.                                        *)
ResumeEnter ==
    /\ pc = "resume"
    /\ \/ InBody("resume")
       \/ ~(frames # <<>> /\ IsBody(Top(frames))) /\ hist.calls < MaxResumes
    /\ hist' = [hist EXCEPT !.calls = IF InBody("resume") THEN @ ELSE @ + 1,
                            !.written = IF gen.ip = NULL \/ @ > Len(frames) THEN @
                                        ELSE Len(frames) + 1]
    /\ IF gen.ip = NULL
       THEN /\ frames' = ReturnToCaller(frames)
            /\ UNCHANGED <<pc, gen>>
       ELSE IF Len(frames) >= KRK_CALL_FRAMES_MAX
       THEN /\ pc' = "overflow"
            /\ UNCHANGED <<frames, gen>>
       ELSE /\ frames' = generator__call___frame(frames, gen)
            /\ gen' = [gen EXCEPT !.running = TRUE]
            /\ pc' = pc
    /\ UNCHANGED <<prog, chunks, stack, hasException, currentException, log, iterPos, pending, heap, static>>

(* krk_runNext returns at a yield: the frame is left, running = 0,         *)
(* started = 1, the frame's ip is saved.                                   *)
ResumeYield ==
    /\ pc = "resume"
    /\ InBody("yield")
    /\ gen' = [gen EXCEPT !.running = FALSE, !.started = TRUE, !.ip = Top(frames).ip + 1]
    /\ frames' = ReturnToCaller(Pop(frames))
    /\ UNCHANGED <<prog, pc, chunks, stack, hasException, currentException, log, iterPos, pending, hist, heap, static>>

(* krk_runNext returns Kwargs(0): the body has returned, the generator is  *)
(* done.                                                                   *)
ResumeReturn ==
    /\ pc = "resume"
    /\ InBody("return")
    /\ gen' = _set_generator_done([gen EXCEPT !.running = FALSE, !.started = TRUE])
    /\ frames' = ReturnToCaller(Pop(frames))
    /\ UNCHANGED <<prog, pc, chunks, stack, hasException, currentException, log, iterPos, pending, hist, heap, static>>

InitResume ==
    /\ prog \in ResumePrograms
    /\ pc = "resume"
    /\ chunks = <<>>
    /\ stack = <<>>
    /\ frames \in SeqsUpTo({[closure |-> "caller", ip |-> 0]}, KRK_CALL_FRAMES_MAX)
    /\ hasException = FALSE
    /\ currentException = NONE_VAL
    /\ log = <<>>
    /\ iterPos = 0
    /\ heap = <<>>
    /\ current = <<>>
    /\ parser = <<>>
    /\ _compilerLock = 0
    /\ compiling = <<>>
    /\ gen = krk_buildGenerator(prog.body, <<>>, 0)
    /\ hist = [calls |-> 0, written |-> Len(frames)]
    /\ pending = <<>>

NextResume ==
    \/ ResumeEnter
    \/ ResumeYield
    \/ ResumeReturn

SpecResume == InitResume /\ [][NextResume]_vars

-----------------------------------------------------------------------------
(* Chunks (chunk.c).  A chunk is its byte array code, of which the first    *)
(* count bytes are the chunk's contents, its line map lines and its         *)
(* constants.  The compiler moves count back (list, grouping, dict,         *)
(* actualTernary: currentChunk()->count = chunkBefore) and writes again     *)
(* from there.                                                              *)
krk_initChunk == [code |-> <<>>, count |-> 0, lines |-> <<>>, constants |-> <<>>]

addLine(ch, line) ==
    IF ch.lines # <<>> /\ ch.lines[Len(ch.lines)].line = line THEN ch
    ELSE [ch EXCEPT !.lines = Append(@, [startOffset |-> ch.count, line |-> line])]

krk_writeChunk(ch, byte, line) ==
    [addLine([ch EXCEPT !.code = IF ch.count < Len(@)
                                 THEN [@ EXCEPT ![ch.count + 1] = byte % 256]
                                 ELSE Append(@, byte % 256)],
             line)
     EXCEPT !.count = @ + 1]

krk_emitConstant(ch, ind, line) ==
    IF ind >= 256
    THEN krk_writeChunk(
            krk_writeChunk(
                krk_writeChunk(krk_writeChunk(ch, OP_CONSTANT_LONG, line),
                               (ind \div 65536) % 256, line),
                (ind \div 256) % 256, line),
            ind % 256, line)
    ELSE krk_writeChunk(krk_writeChunk(ch, OP_CONSTANT, line), ind, line)

(* emitByte is krk_writeChunk(currentChunk(), byte, parser.previous.line):  *)
(* the bytes a compiler operator emits are written one by one at the        *)
(* parser's line.                                                           *)
RECURSIVE krk_writeChunks(_, _, _)
krk_writeChunks(ch, bytes, line) ==
    IF bytes = <<>> THEN ch
    ELSE krk_writeChunks(krk_writeChunk(ch, Head(bytes), line), Tail(bytes), line)

(* The line of the byte at offset: the line-map entries with the largest    *)
(* start offset not above it.                                               *)
LineEntries(ch, offset) ==
    {i \in 1..Len(ch.lines) :
        /\ ch.lines[i].startOffset <= offset
        /\ \A j \in 1..Len(ch.lines) :
              ch.lines[j].startOffset <= offset =>
                  ch.lines[j].startOffset <= ch.lines[i].startOffset}

(* The chunk written, in chunks[1].  hist.written[o + 1] is the line passed  *)
(* when the byte at offset o was last written, hist.line the parser's line, *)
(* pending the saved counts (chunkBefore), log the operand instructions     *)
(* emitted.                                                                 *)
theChunk == chunks[1]

Written(ch, line) ==
    [o \in 1..ch.count |-> IF o <= theChunk.count THEN hist.written[o] ELSE line]

ChunkStep(ch, emitted) ==
    /\ chunks' = <<ch>>
    /\ hist' = [hist EXCEPT !.written = Written(ch, hist.line)]
    /\ log' = log \o emitted
    /\ UNCHANGED <<prog, pc, stack, frames, hasException, currentException, iterPos, gen, pending, heap, static>>

ChunkWrite ==
    /\ pc = "chunk"
    /\ theChunk.count < MaxCount
    /\ ChunkStep(krk_writeChunk(theChunk, OP_POP, hist.line), <<>>)

(* advance() onto a token of the next line.                                 *)
ChunkNextLine ==
    /\ pc = "chunk"
    /\ hist.line < MaxLine
    /\ hist' = [hist EXCEPT !.line = @ + 1]
    /\ UNCHANGED <<prog, pc, chunks, stack, frames, hasException, currentException, log, iterPos, gen, pending, heap, static>>

(* size_t chunkBefore = currentChunk()->count;                              *)
ChunkSave ==
    /\ pc = "chunk"
    /\ Len(pending) < MaxSaves
    /\ pending' = Append(pending, theChunk.count)
    /\ UNCHANGED <<prog, pc, chunks, stack, frames, hasException, currentException, log, iterPos, gen, hist, heap, static>>

(* currentChunk()->count = chunkBefore;                                     *)
ChunkRollback ==
    /\ pc = "chunk"
    /\ pending # <<>>
    /\ chunks' = <<[theChunk EXCEPT !.count = pending[Len(pending)]]>>
    /\ hist' = [hist EXCEPT !.written = SubSeq(@, 1, pending[Len(pending)])]
    /\ pending' = SubSeq(pending, 1, Len(pending) - 1)
    /\ UNCHANGED <<prog, pc, stack, frames, hasException, currentException, log, iterPos, gen, heap, static>>

(* No `for` and no `if` followed the expression: chunkBefore is not used.   *)
ChunkKeep ==
    /\ pc = "chunk"
    /\ pending # <<>>
    /\ pending' = SubSeq(pending, 1, Len(pending) - 1)
    /\ UNCHANGED <<prog, pc, chunks, stack, frames, hasException, currentException, log, iterPos, gen, hist, heap, static>>

InitChunk ==
    /\ prog = <<>>
    /\ pc = "chunk"
    /\ chunks = <<krk_initChunk>>
    /\ stack = <<>>
    /\ frames = <<>>
    /\ hasException = FALSE
    /\ currentException = NONE_VAL
    /\ log = <<>>
    /\ iterPos = 0
    /\ heap = <<>>
    /\ current = <<>>
    /\ parser = <<>>
    /\ _compilerLock = 0
    /\ compiling = <<>>
    /\ gen = <<>>
    /\ pending = <<>>
    /\ hist = [written |-> <<>>, line |-> 1]

NextChunk ==
    \/ ChunkWrite
    \/ ChunkNextLine
    \/ ChunkSave
    \/ ChunkRollback
    \/ ChunkKeep

SpecChunk == InitChunk /\ [][NextChunk]_vars

(* Operand instructions: the operand indices and the opcodes emitted, by    *)
(* krk_emitConstant and by EMIT_CONSTANT_OP, into a chunk that starts       *)
(* empty.                                                                   *)
Indices == {0, 1, 255, 256, 257, 65535, 65536, 16777215}
OperandOps == {OP_GET_LOCAL, OP_CALL}

OperandEmitConstant ==
    /\ pc = "operand"
    /\ Len(log) < MaxOperands
    /\ \E ind \in Indices :
          ChunkStep(krk_emitConstant(theChunk, ind, hist.line),
                    <<[at |-> theChunk.count, opc |-> OP_CONSTANT, ind |-> ind]>>)

OperandEmitConstantOp ==
    /\ pc = "operand"
    /\ Len(log) < MaxOperands
    /\ \E opc \in OperandOps, arg \in Indices :
          ChunkStep(krk_writeChunks(theChunk, EMIT_CONSTANT_OP(initCompiler, opc, arg).code,
                                    hist.line),
                    <<[at |-> theChunk.count, opc |-> opc, ind |-> arg]>>)

InitOperand ==
    /\ prog = <<>>
    /\ pc = "operand"
    /\ chunks = <<krk_initChunk>>
    /\ stack = <<>>
    /\ frames = <<>>
    /\ hasException = FALSE
    /\ currentException = NONE_VAL
    /\ log = <<>>
    /\ iterPos = 0
    /\ heap = <<>>
    /\ current = <<>>
    /\ parser = <<>>
    /\ _compilerLock = 0
    /\ compiling = <<>>
    /\ gen = <<>>
    /\ pending = <<>>
    /\ hist = [written |-> <<>>, line |-> 1]

NextOperand ==
    \/ OperandEmitConstant
    \/ OperandEmitConstantOp

SpecOperand == InitOperand /\ [][NextOperand]_vars

(* krk_valuesEqual on two values of the stack: the values compared, what    *)
(* it returns, and the ValueError it raises for two Handler values.         *)
Comparands ==
    {NONE_VAL, HANDLER_VAL(OP_PUSH_TRY, 3), HANDLER_VAL(OP_PUSH_WITH, 3),
     KWARGS_VAL(0), KWARGS_VAL(1), INTEGER_VAL(0), INTEGER_VAL(1),
     BOOLEAN_VAL(FALSE), BOOLEAN_VAL(TRUE), OBJECT_VAL("AlwaysEqual", 1),
     OBJECT_VAL("NeverEqual", 1), OBJECT_VAL("ValueError", 0)}

krk_valuesEqual_raises(a, b) == a.t = b.t /\ IS_HANDLER(a)

ValuesEqual ==
    /\ pc = "values"
    /\ Len(stack) = 2
    /\ stack' = <<BOOLEAN_VAL(krk_valuesEqual(stack[1], stack[2]))>>
    /\ log' = Append(log, [a |-> stack[1], b |-> stack[2],
                           equal |-> krk_valuesEqual(stack[1], stack[2])])
    /\ hasException' = krk_valuesEqual_raises(stack[1], stack[2])
    /\ currentException' = IF krk_valuesEqual_raises(stack[1], stack[2])
                           THEN OBJECT_VAL("ValueError", 0) ELSE currentException
    /\ UNCHANGED <<prog, pc, chunks, frames, iterPos, gen, pending, hist, heap, static>>

InitValues ==
    /\ prog = <<>>
    /\ pc = "values"
    /\ chunks = <<>>
    /\ stack \in [1..2 -> Comparands]
    /\ frames = <<>>
    /\ hasException = FALSE
    /\ currentException = NONE_VAL
    /\ log = <<>>
    /\ iterPos = 0
    /\ heap = <<>>
    /\ current = <<>>
    /\ parser = <<>>
    /\ _compilerLock = 0
    /\ compiling = <<>>
    /\ gen = <<>>
    /\ pending = <<>>
    /\ hist = <<>>

NextValues == ValuesEqual

SpecValues == InitValues /\ [][NextValues]_vars

-----------------------------------------------------------------------------
(* Sets (obj_set.c).  A set is a table of keys: an open-addressed array of *)
(* entries, of which an entry with a Kwargs key is unused, never used when *)
(* its value is None and a deleted entry (tombstone) otherwise.  `heap`    *)
(* holds the set, `gen` its iterator once __iter__ was called, `log` what  *)
(* the iterator's calls returned, and `hist` the number of operations      *)
(* applied to the set and whether one was applied since __iter__.          *)
MaxOps == 4
MaxCalls == 5

Keys == {INTEGER_VAL(1), INTEGER_VAL(2), STRING_VAL("a")}
krk_hashValue(key) == IF IS_INTEGER(key) THEN key.v ELSE 9

EmptyEntry == [key |-> KWARGS_VAL(0), value |-> NONE_VAL]
Tombstone == [key |-> KWARGS_VAL(0), value |-> BOOLEAN_VAL(TRUE)]

krk_initTable == [count |-> 0, entries |-> <<>>]
Capacity(table) == Len(table.entries)
GROW_CAPACITY(capacity) == IF capacity < 8 THEN 8 ELSE capacity * 2

RECURSIVE krk_findEntry_probe(_, _, _, _)
krk_findEntry_probe(entries, key, index, tombstone) ==
    IF IS_KWARGS(entries[index + 1].key)
    THEN IF IS_NONE(entries[index + 1].value)
         THEN (IF tombstone # NULL THEN tombstone ELSE index)
         ELSE krk_findEntry_probe(entries, key, (index + 1) % Len(entries),
                                  IF tombstone = NULL THEN index ELSE tombstone)
    ELSE IF krk_valuesEqual(key, entries[index + 1].key) THEN index
    ELSE krk_findEntry_probe(entries, key, (index + 1) % Len(entries), tombstone)

krk_findEntry(entries, key) ==
    krk_findEntry_probe(entries, key, krk_hashValue(key) % Len(entries), NULL)

tableStore(table, key, value) ==
    [count |-> table.count
                + (IF IS_KWARGS(table.entries[krk_findEntry(table.entries, key) + 1].key)
                   THEN 1 ELSE 0),
     entries |-> [table.entries EXCEPT ![krk_findEntry(table.entries, key) + 1] =
                        [key |-> key, value |-> value]]]

RECURSIVE adjustCapacity_copy(_, _, _)
adjustCapacity_copy(table, old, i) ==
    IF i > Len(old) THEN table
    ELSE IF IS_KWARGS(old[i].key) THEN adjustCapacity_copy(table, old, i + 1)
    ELSE adjustCapacity_copy(tableStore(table, old[i].key, old[i].value), old, i + 1)

adjustCapacity(table, capacity) ==
    adjustCapacity_copy([count |-> 0, entries |-> [i \in 1..capacity |-> EmptyEntry]],
                        table.entries, 1)

krk_tableSet(table, key, value) ==
    tableStore(IF 4 * (table.count + 1) > 3 * Capacity(table)
               THEN adjustCapacity(table, GROW_CAPACITY(Capacity(table)))
               ELSE table,
               key, value)

krk_tableFound(table, key) ==
    /\ table.count # 0
    /\ ~IS_KWARGS(table.entries[krk_findEntry(table.entries, key) + 1].key)

krk_tableDelete(table, key) ==
    IF ~krk_tableFound(table, key) THEN table
    ELSE [count |-> table.count - 1,
          entries |-> [table.entries EXCEPT ![krk_findEntry(table.entries, key) + 1] =
                            Tombstone]]

(* The keys of the table, in the order of its entries.                     *)
IsKey(entry) == ~IS_KWARGS(entry.key)
TableKeys(table) ==
    [i \in 1..Len(SelectSeq(table.entries, IsKey)) |-> SelectSeq(table.entries, IsKey)[i].key]
Elements(table) == {TableKeys(table)[i] : i \in 1..Len(TableKeys(table))}

(* repr of a key, and set.__repr__ as the tokens of its text.              *)
krk_repr(key) == IF IS_INTEGER(key) THEN ToString(key.v) ELSE "'" \o key.s \o "'"

RECURSIVE set___repr___keys(_, _)
set___repr___keys(keys, c) ==
    IF c > Len(keys) THEN <<>>
    ELSE (IF c > 1 THEN <<",">> ELSE <<>>) \o <<krk_repr(keys[c])>>
            \o set___repr___keys(keys, c + 1)

set___repr__(table) ==
    IF Capacity(table) = 0 THEN <<"set", "(", ")">>
    ELSE <<"{">> \o set___repr___keys(TableKeys(table), 1) \o <<"}">>

(* What a set or dict display of literals, or the call set(), evaluates    *)
(* to: dict() compiles {} to dictOf(), and a brace with a first expression *)
(* followed by a comma or the closing brace to setOf(...).                 *)
literal(tok) == CHOOSE key \in Keys : krk_repr(key) = tok

dict(tokens) ==
    IF tokens[2] = "}" THEN [class |-> "dict", keys |-> {}]
    ELSE [class |-> "set",
          keys |-> {literal(tokens[i]) : i \in {j \in 2..(Len(tokens) - 1) : j % 2 = 0}}]

eval(tokens) ==
    IF tokens[1] = "{" THEN dict(tokens) ELSE [class |-> "set", keys |-> {}]

theSet == heap[1]

setiterator___init__ == [i |-> 0]

(* The entry the loop of setiterator.__call__ stops at: the first entry at *)
(* or after i whose key is no Kwargs value, or the capacity.                *)
RECURSIVE setiterator___call___skip(_, _)
setiterator___call___skip(i, table) ==
    IF i >= Capacity(table) \/ ~IS_KWARGS(table.entries[i + 1].key) THEN i
    ELSE setiterator___call___skip(i + 1, table)

setiterator___call___unskipped(self, table) ==
    IF self.i >= Capacity(table) THEN [self |-> self, result |-> OBJECT_VAL("setiterator", 1)]
    ELSE [self |-> [self EXCEPT !.i = @ + 1], result |-> table.entries[self.i + 1].key]

setiterator___call__(self, table) ==
    IF setiterator___call___skip(self.i, table) >= Capacity(table)
    THEN [self |-> [self EXCEPT !.i = setiterator___call___skip(self.i, table)],
          result |-> OBJECT_VAL("setiterator", 1)]
    ELSE [self |-> [self EXCEPT !.i = setiterator___call___skip(self.i, table) + 1],
          result |-> table.entries[setiterator___call___skip(self.i, table) + 1].key]

SetStep(table, raised) ==
    /\ pc = "set"
    /\ hist.ops < MaxOps
    /\ heap' = <<table>>
    /\ hist' = [ops |-> hist.ops + 1, modified |-> hist.modified \/ table # theSet]
    /\ hasException' = raised
    /\ currentException' = IF raised THEN OBJECT_VAL("KeyError", 0) ELSE currentException
    /\ UNCHANGED <<prog, pc, chunks, stack, frames, log, iterPos, gen, pending, static>>

SetAdd == \E key \in Keys : SetStep(krk_tableSet(theSet, key, BOOLEAN_VAL(TRUE)), FALSE)

SetRemove ==
    \E key \in Keys : SetStep(krk_tableDelete(theSet, key), ~krk_tableFound(theSet, key))

SetDiscard == \E key \in Keys : SetStep(krk_tableDelete(theSet, key), FALSE)

SetClear == SetStep(krk_initTable, FALSE)

SetIter ==
    /\ pc = "set"
    /\ gen = <<>>
    /\ gen' = setiterator___init__
    /\ hist' = [hist EXCEPT !.modified = FALSE]
    /\ UNCHANGED <<prog, pc, chunks, stack, frames, hasException, currentException, log, iterPos, pending, heap, static>>

SetIteratorCall ==
    /\ pc = "set"
    /\ gen # <<>>
    /\ Len(log) < MaxCalls
    /\ gen' = setiterator___call__(gen, theSet).self
    /\ log' = Append(log, setiterator___call__(gen, theSet).result)
    /\ UNCHANGED <<prog, pc, chunks, stack, frames, hasException, currentException, iterPos, pending, hist, heap, static>>

InitSet ==
    /\ prog = <<>>
    /\ pc = "set"
    /\ chunks = <<>>
    /\ stack = <<>>
    /\ frames = <<>>
    /\ hasException = FALSE
    /\ currentException = NONE_VAL
    /\ log = <<>>
    /\ iterPos = 0
    /\ heap = <<krk_initTable>>
    /\ current = <<>>
    /\ parser = <<>>
    /\ _compilerLock = 0
    /\ compiling = <<>>
    /\ gen = <<>>
    /\ pending = <<>>
    /\ hist = [ops |-> 0, modified |-> FALSE]

NextSet ==
    \/ SetAdd
    \/ SetRemove
    \/ SetDiscard
    \/ SetClear
    \/ SetIter
    \/ SetIteratorCall

SpecSet == InitSet /\ [][NextSet]_vars

-----------------------------------------------------------------------------
(* The scanner (scanner.c).  The source is a sequence of characters; the   *)
(* scanner S holds it with start and cur, the positions of the first       *)
(* character of the token being scanned and of the next character to read, *)
(* and the token it made last.  `hist` holds the scanner and `log` the     *)
(* tokens delivered, each with its type and its text.                      *)
MaxDigits == 2
MaxTokens == 4

NUL == "NUL"
Digits == {"0", "1", "2", "3", "4", "5", "6", "7", "8", "9"}
Lower == {"a", "b", "c", "d", "e", "f", "g", "h", "i", "j", "k", "l", "m", "n", "o", "p", "q",
          "r", "s", "t", "u", "v", "w", "x", "y", "z"}
Upper == {"A", "B", "C", "D", "E", "F", "G", "H", "I", "J", "K", "L", "M", "N", "O", "P", "Q",
          "R", "S", "T", "U", "V", "W", "X", "Y", "Z"}

krk_initScanner(src) ==
    [src |-> src, start |-> 1, cur |-> 1, line |-> 1, startOfLine |-> 1,
     token |-> [type |-> "NONE", text |-> <<>>]]

isAtEnd(S) == S.cur > Len(S.src)
peek(S) == IF isAtEnd(S) THEN NUL ELSE S.src[S.cur]
peekNext(S) == IF S.cur + 1 > Len(S.src) THEN NUL ELSE S.src[S.cur + 1]
advanceChar(S) == [S EXCEPT !.cur = @ + 1]
matchChar(S, expected) == ~isAtEnd(S) /\ S.src[S.cur] = expected

makeToken(S, type) ==
    [S EXCEPT !.token = [type |-> type, text |-> SubSeq(S.src, S.start, S.cur - 1)]]

errorToken(S, errorStr) == [S EXCEPT !.token = [type |-> "ERROR", text |-> <<errorStr>>]]

isDigit(c) == c \in Digits
isAlpha(c) == c \in Lower \cup Upper \cup {"_"}
isHex(n) == isDigit(n) \/ n \in {"a", "b", "c", "d", "e", "f"} \/ n \in {"A", "B", "C", "D", "E", "F"}

(* while (peek() is one of chars) advance();                               *)
RECURSIVE advanceWhile(_, _)
advanceWhile(S, chars) ==
    IF peek(S) \in chars THEN advanceWhile(advanceChar(S), chars) ELSE S

skipWhitespace(S) ==
    IF peek(advanceWhile(S, {" ", "\t"})) = "\n"
    THEN [advanceWhile(S, {" ", "\t"}) EXCEPT !.line = @ + 1, !.startOfLine = 1]
    ELSE advanceWhile(S, {" ", "\t"})

makeIndentation(S) ==
    IF peek(advanceWhile(S, {" "})) = "\n"
    THEN errorToken(advanceWhile(S, {" "}), "Empty indentation line is invalid.")
    ELSE makeToken(advanceWhile(S, {" "}), "INDENTATION")

(* scanner.cur is past the NUL that ends the source: what peek() and       *)
(* advance() read from there on is not the source's.                       *)
OutsideSource(S) == S.cur > Len(S.src) + 1

(* One turn of the loop of string(): a backslash is passed together with   *)
(* the character after it ("Advance twice"), a line end counts a line.     *)
string_escape(S) == IF peek(S) = "\\" THEN advanceChar(S) ELSE S

string_turn(S) ==
    advanceChar(IF peek(string_escape(S)) = "\n"
                THEN [string_escape(S) EXCEPT !.line = @ + 1]
                ELSE string_escape(S))

RECURSIVE string(_)
string(S) ==
    IF OutsideSource(S) THEN S
    ELSE IF peek(S) # "\"" /\ ~isAtEnd(S) THEN string(string_turn(S))
    ELSE IF isAtEnd(S) THEN errorToken(S, "Unterminated string.")
    ELSE makeToken(advanceChar(S), "STRING")

(* codepoint(): as string() between single quotes, but a line end ends the *)
(* token as TOKEN_RETRY.                                                   *)
RECURSIVE codepoint(_)
codepoint(S) ==
    IF OutsideSource(S) THEN S
    ELSE IF peek(S) # "'" /\ ~isAtEnd(S)
    THEN (IF peek(string_escape(S)) = "\n"
          THEN makeToken(string_escape(S), "RETRY")
          ELSE codepoint(advanceChar(string_escape(S))))
    ELSE IF isAtEnd(S) THEN errorToken(S, "Unterminated codepoint literal.")
    ELSE makeToken(advanceChar(S), "CODEPOINT")

(* The hexadecimal loop is do { ... continue; } while (0): it reads at     *)
(* most one digit.                                                         *)
number_hexadecimal(S) == IF isHex(peek(S)) THEN advanceChar(S) ELSE S

number_floating(S) ==
    IF peek(S) = "." /\ isDigit(peekNext(S))
    THEN advanceWhile(advanceChar(S), Digits)
    ELSE S

(* number(c): c is the character just read, and the test that opens the    *)
(* prefixed literals is c == 0, the NUL character.                         *)
number(S, c) ==
    IF c = NUL
    THEN IF peek(S) \in {"x", "X"} THEN makeToken(number_hexadecimal(advanceChar(S)), "NUMBER")
         ELSE IF peek(S) \in {"b", "B"}
              THEN makeToken(advanceWhile(advanceChar(S), {"0", "1"}), "NUMBER")
         ELSE makeToken(advanceWhile(S, {"0", "1", "2", "3", "4", "5", "6", "7"}), "NUMBER")
    ELSE makeToken(number_floating(advanceWhile(S, Digits)), "NUMBER")

checkKeyword(S, start, rest, type) ==
    IF /\ S.cur - S.start = start + Len(rest)
       /\ SubSeq(S.src, S.start + start, S.start + start + Len(rest) - 1) = rest
    THEN type ELSE "IDENTIFIER"

MORE(S, i) == S.cur - S.start > i

identifierType(S) ==
    CASE S.src[S.start] = "a" -> checkKeyword(S, 1, <<"n", "d">>, "AND")
      [] S.src[S.start] = "c" -> checkKeyword(S, 1, <<"l", "a", "s", "s">>, "CLASS")
      [] S.src[S.start] = "d" -> checkKeyword(S, 1, <<"e", "f">>, "DEF")
      [] S.src[S.start] = "e" -> checkKeyword(S, 1, <<"l", "s", "e">>, "ELSE")
      [] S.src[S.start] = "f" -> checkKeyword(S, 1, <<"o", "r">>, "FOR")
      [] S.src[S.start] = "F" -> checkKeyword(S, 1, <<"a", "l", "s", "e">>, "FALSE")
      [] S.src[S.start] = "i" /\ MORE(S, 1) /\ S.src[S.start + 1] = "f" -> checkKeyword(S, 2, <<"f">>, "IF")
      [] S.src[S.start] = "i" /\ MORE(S, 1) /\ S.src[S.start + 1] = "n" -> checkKeyword(S, 2, <<"n">>, "IN")
      [] S.src[S.start] = "l" -> checkKeyword(S, 1, <<"e", "t">>, "LET")
      [] S.src[S.start] = "n" -> checkKeyword(S, 1, <<"o", "t">>, "NOT")
      [] S.src[S.start] = "N" -> checkKeyword(S, 1, <<"o", "n", "e">>, "NONE")
      [] S.src[S.start] = "o" -> checkKeyword(S, 1, <<"r">>, "OR")
      [] S.src[S.start] = "p" -> checkKeyword(S, 1, <<"r", "i", "n", "t">>, "PRINT")
      [] S.src[S.start] = "r" -> checkKeyword(S, 1, <<"e", "t", "u", "r", "n">>, "RETURN")
      [] S.src[S.start] = "s" /\ MORE(S, 1) /\ S.src[S.start + 1] = "e" -> checkKeyword(S, 2, <<"l", "f">>, "SELF")
      [] S.src[S.start] = "s" /\ MORE(S, 1) /\ S.src[S.start + 1] = "u" -> checkKeyword(S, 2, <<"p", "e", "r">>, "SUPER")
      [] S.src[S.start] = "T" -> checkKeyword(S, 1, <<"r", "u", "e">>, "TRUE")
      [] S.src[S.start] = "w" -> checkKeyword(S, 1, <<"h", "i", "l", "e">>, "WHILE")
      [] OTHER -> "IDENTIFIER"

identifier(S) ==
    makeToken(advanceWhile(S, Lower \cup Upper \cup {"_"} \cup Digits),
              identifierType(advanceWhile(S, Lower \cup Upper \cup {"_"} \cup Digits)))

Single ==
    [c \in {"(", ")", "{", "}", "[", "]", ":", ",", ".", "-", "+", ";", "/", "*"} |->
        CASE c = "(" -> "LEFT_PAREN" [] c = ")" -> "RIGHT_PAREN"
          [] c = "{" -> "LEFT_BRACE" [] c = "}" -> "RIGHT_BRACE"
          [] c = "[" -> "LEFT_SQUARE" [] c = "]" -> "RIGHT_SQUARE"
          [] c = ":" -> "COLON" [] c = "," -> "COMMA" [] c = "." -> "DOT"
          [] c = "-" -> "MINUS" [] c = "+" -> "PLUS" [] c = ";" -> "SEMICOLON"
          [] c = "/" -> "SOLIDUS" [] OTHER -> "ASTERISK"]

(* krk_scanToken from the character c it has just read on.                 *)
scanToken_char(S, c) ==
    IF isAlpha(c) THEN identifier(S)
    ELSE IF isDigit(c) THEN number(S, c)
    ELSE IF c \in DOMAIN Single THEN makeToken(S, Single[c])
    ELSE IF c \in {"<", ">"}
         THEN (IF matchChar(S, "=")
               THEN makeToken(advanceChar(S), IF c = "<" THEN "LESS_EQUAL" ELSE "GREATER_EQUAL")
               ELSE makeToken(S, IF c = "<" THEN "LESS" ELSE "GREATER"))
    ELSE IF c = "\"" THEN string(S)
    ELSE IF c = "'" THEN codepoint(S)
    ELSE errorToken(S, "Unexpected character.")

scanToken_start(S) ==
    IF isAtEnd(S) THEN makeToken([S EXCEPT !.start = S.cur], "EOF")
    ELSE scanToken_char(advanceChar([S EXCEPT !.start = S.cur]), S.src[S.cur])

scanToken(S) ==
    IF S.startOfLine # 0 /\ peek(S) = " "
    THEN makeIndentation([S EXCEPT !.start = S.cur])
    ELSE scanToken_start(skipWhitespace([S EXCEPT !.startOfLine = 0]))

(* The sources scanned: one identifier-shaped lexeme (a keyword, a keyword  *)
(* with one more character, a keyword without its last character) or one   *)
(* integer literal with a prefix, alone or followed by a space and `x`.     *)
Keyword ==
    ("AND" :> <<"a", "n", "d">>)
    @@ ("CLASS" :> <<"c", "l", "a", "s", "s">>)
    @@ ("DEF" :> <<"d", "e", "f">>)
    @@ ("ELSE" :> <<"e", "l", "s", "e">>)
    @@ ("FOR" :> <<"f", "o", "r">>)
    @@ ("FALSE" :> <<"F", "a", "l", "s", "e">>)
    @@ ("IF" :> <<"i", "f">>)
    @@ ("IN" :> <<"i", "n">>)
    @@ ("LET" :> <<"l", "e", "t">>)
    @@ ("NOT" :> <<"n", "o", "t">>)
    @@ ("NONE" :> <<"N", "o", "n", "e">>)
    @@ ("OR" :> <<"o", "r">>)
    @@ ("PRINT" :> <<"p", "r", "i", "n", "t">>)
    @@ ("RETURN" :> <<"r", "e", "t", "u", "r", "n">>)
    @@ ("SELF" :> <<"s", "e", "l", "f">>)
    @@ ("SUPER" :> <<"s", "u", "p", "e", "r">>)
    @@ ("TRUE" :> <<"T", "r", "u", "e">>)
    @@ ("WHILE" :> <<"w", "h", "i", "l", "e">>)

Keywords == {Keyword[t] : t \in DOMAIN Keyword}
KeywordType(w) == CHOOSE t \in DOMAIN Keyword : Keyword[t] = w

IdentifierLexemes ==
    Keywords
    \cup {Append(w, c) : w \in Keywords, c \in {"f", "n", "s", "1"}}
    \cup {SubSeq(w, 1, Len(w) - 1) : w \in Keywords}

HexDigits == {"1", "9", "a", "F"}
BinDigits == {"0", "1"}
OctDigits == {"0", "7"}
DigitStrings(digits) == UNION {[1..n -> digits] : n \in 1..MaxDigits}

NumberLexemes ==
    {<<"0", x>> \o d : x \in {"x", "X"}, d \in DigitStrings(HexDigits)}
    \cup {<<"0", b>> \o d : b \in {"b", "B"}, d \in DigitStrings(BinDigits)}
    \cup {<<"0", o>> \o d : o \in {"o", "O"}, d \in DigitStrings(OctDigits)}

Lexemes == IdentifierLexemes \cup NumberLexemes

(* A quote of either kind followed by up to MaxChars characters: quotes,   *)
(* backslashes, a letter, line ends.                                       *)
MaxChars == 3
LiteralChars == {"\"", "'", "\\", "a", "\n"}
LiteralSources ==
    {<<q>> \o body : q \in {"\"", "'"}, body \in SeqsUpTo(LiteralChars, MaxChars)}

ScannerSources == Lexemes \cup {w \o <<" ", "x">> : w \in Lexemes} \cup LiteralSources

ScanToken ==
    /\ pc = "scanner"
    /\ Len(log) < MaxTokens
    /\ hist.token.type \notin {"EOF", "ERROR"}
    /\ ~OutsideSource(scanToken(hist))
    /\ hist' = scanToken(hist)
    /\ log' = Append(log, scanToken(hist).token)
    /\ UNCHANGED <<prog, pc, chunks, stack, frames, hasException, currentException, iterPos, gen, pending, heap, static>>

(* krk_scanToken has moved scanner.cur past the NUL: the token it ends     *)
(* with depends on the memory after the source, a literal, an error or no  *)
(* token at all.                                                           *)
ScanOutside ==
    /\ pc = "scanner"
    /\ Len(log) < MaxTokens
    /\ hist.token.type \notin {"EOF", "ERROR"}
    /\ OutsideSource(scanToken(hist))
    /\ hist' = scanToken(hist)
    /\ \E type \in {"STRING", "CODEPOINT", "RETRY", "ERROR", "NONE"} :
            log' = Append(log, [type |-> type, text |-> <<>>])
    /\ pc' = "outside"
    /\ UNCHANGED <<prog, chunks, stack, frames, hasException, currentException, iterPos, gen, pending, heap, static>>

InitScanner ==
    /\ prog = <<>>
    /\ pc = "scanner"
    /\ chunks = <<>>
    /\ stack = <<>>
    /\ frames = <<>>
    /\ hasException = FALSE
    /\ currentException = NONE_VAL
    /\ log = <<>>
    /\ iterPos = 0
    /\ heap = <<>>
    /\ current = <<>>
    /\ parser = <<>>
    /\ _compilerLock = 0
    /\ compiling = <<>>
    /\ gen = <<>>
    /\ pending = <<>>
    /\ \E src \in ScannerSources : hist = krk_initScanner(src)

NextScanner ==
    \/ ScanToken
    \/ ScanOutside

SpecScanner == InitScanner /\ [][NextScanner]_vars

-----------------------------------------------------------------------------
(* The parser on tokens (compiler.c).  A token is its type, an identifier   *)
(* its name.  The static Parser P holds the current and the previous token, *)
(* hadError, panicMode and eatingWhitespace; rest is what the scanner has   *)
(* still to deliver and c the Compiler that `current` points to; raised     *)
(* counts the SyntaxErrors raised by krk_runtimeError in this compile.      *)
Punctuation ==
    {"(", ")", "**", "*", ",", "<", "<=", ">", ">=", "=", "if", "else", "elif", "def", ":",
     "EOL", "EOF"}
NumberTokens == {"1", "2"}
(* An INDENTATION token is the blank start of a line; its length is the    *)
(* number of columns.                                                      *)
IndentationTokens == {"INDENT4", "INDENT8"}
TokenType(tok) ==
    IF tok \in Punctuation THEN tok
    ELSE IF tok \in NumberTokens THEN "NUMBER"
    ELSE IF tok \in IndentationTokens THEN "INDENTATION" ELSE "IDENTIFIER"
TokenLength(tok) == IF tok = "INDENT4" THEN 4 ELSE IF tok = "INDENT8" THEN 8 ELSE 1

finishError(P) == [P EXCEPT !.panicMode = TRUE, !.hadError = TRUE]

(* error() and errorAtCurrent() differ in the token they report: nothing   *)
(* in panic mode, else krk_runtimeError and finishError.                    *)
errorAtCurrent(P) ==
    IF P.panicMode THEN P ELSE finishError([P EXCEPT !.raised = @ + 1])

(* The loop of advance(): with eatingWhitespace not zero, line ends are     *)
(* skipped; at the end of the source the scanner delivers EOF.              *)
(* A token given back by krk_ungetToken is what the scanner delivers next;  *)
(* the scanner holds one such token (unget); ungetTwice says that a token  *)
(* was given back while another was still held.                            *)
krk_ungetToken(P, token) ==
    [P EXCEPT !.unget = <<token>>, !.ungetTwice = @ \/ P.unget # <<>>]

RECURSIVE krk_scanToken(_)
krk_scanToken(P) ==
    IF P.unget # <<>>
    THEN IF P.eatingWhitespace # 0 /\ P.unget[1] = "EOL"
         THEN krk_scanToken([P EXCEPT !.unget = <<>>])
         ELSE [P EXCEPT !.current = P.unget[1], !.unget = <<>>]
    ELSE IF P.rest = <<>> THEN [P EXCEPT !.current = "EOF"]
    ELSE IF P.eatingWhitespace # 0 /\ Head(P.rest) = "EOL"
         THEN krk_scanToken([P EXCEPT !.rest = Tail(@)])
    ELSE [P EXCEPT !.current = Head(P.rest), !.rest = Tail(@)]

advance(P) == krk_scanToken([P EXCEPT !.previous = P.current])

(* What the parser has before it: the current token, the token given back  *)
(* and the tokens not yet scanned.  lookahead keeps, for every lookahead   *)
(* that failed, what the parser had before it when the lookahead began     *)
(* and what it has before it after the token was given back.               *)
View(P) == <<P.current>> \o P.unget \o P.rest
Restored(P, view) == [P EXCEPT !.lookahead = Append(@, [before |-> view, after |-> View(P)])]

check(P, type) == TokenType(P.current) = type

(* match(type): the parser after it; its result is check(P, type).          *)
match(P, type) == IF check(P, type) THEN advance(P) ELSE P

consumeToken(P, type) == IF check(P, type) THEN advance(P) ELSE errorAtCurrent(P)

startEatingWhitespace(P) ==
    match([P EXCEPT !.eatingWhitespace = @ + 1], "EOL")

stopEatingWhitespace(P) ==
    [(IF P.eatingWhitespace = 0 THEN errorAtCurrent(P) ELSE P)
     EXCEPT !.eatingWhitespace = @ - 1]

(* variable(): the identifier just passed, read by namedVariable.           *)
variable(P) == [P EXCEPT !.c = namedVariable(@, P.previous)]

(* Precedence, lowest first, and the precedence of a token's infix rule in *)
(* krk_parseRules.                                                         *)
PREC_NONE == 0
PREC_ASSIGNMENT == 1
PREC_TERNARY == 2
PREC_OR == 3
PREC_COMPARISON == 5
PREC_FACTOR == 11
PREC_EXPONENT == 13
PREC_CALL == 14

getRule_precedence(tok) ==
    CASE tok = "(" -> PREC_CALL
      [] tok = "**" -> PREC_EXPONENT
      [] tok = "*" -> PREC_FACTOR
      [] tok \in {"<", "<=", ">", ">="} -> PREC_COMPARISON
      [] tok = "if" -> PREC_TERNARY
      [] OTHER -> PREC_NONE

RECURSIVE parsePrecedence(_, _)

(* call(): the arguments of a call, after the left parenthesis.  a counts   *)
(* argCount and specialArgs and holds seenKeywordUnpacking; returned says   *)
(* that call() has returned from inside the loop.  An argument that starts  *)
(* with an identifier is looked at and given back (krk_ungetToken).         *)
Args(P, a, returned) == [P |-> P, a |-> a, returned |-> returned]

call_expanded(P, a) ==
    IF check(P, "**")
    THEN Args(parsePrecedence([advance(P) EXCEPT !.c = emitBytes(@, OP_EXPAND_ARGS, 2)],
                              PREC_ASSIGNMENT),
              [a EXCEPT !.specialArgs = @ + 1, !.seenKeywordUnpacking = TRUE], FALSE)
    ELSE IF a.seenKeywordUnpacking
         THEN Args(errorAtCurrent(P), [a EXCEPT !.specialArgs = @ + 1], TRUE)
    ELSE Args(parsePrecedence([P EXCEPT !.c = emitBytes(@, OP_EXPAND_ARGS, 1)],
                              PREC_ASSIGNMENT),
              [a EXCEPT !.specialArgs = @ + 1], FALSE)

call_positional(P, a) ==
    Args(parsePrecedence(P, PREC_ASSIGNMENT), [a EXCEPT !.argCount = @ + 1], FALSE)

(* NAME = value: the name as a constant, then the value.                    *)
call_keyword(P, argName, a) ==
    Args(parsePrecedence(
            [P EXCEPT !.c = EMIT_CONSTANT_OP(krk_addConstant(@, STRING_VAL(argName)),
                                             OP_CONSTANT, Len(@.constants))],
            PREC_ASSIGNMENT),
         [a EXCEPT !.keywordArgs = @ + 1, !.specialArgs = @ + 1], FALSE)

(* After match(TOKEN_IDENTIFIER): a keyword argument when `=` follows,     *)
(* else the token looked at is given back, the name is current again and   *)
(* the argument is compiled as a positional one.                           *)
call_identifier(P, a, view) ==
    IF check(P, "=") THEN call_keyword(advance(P), P.previous, a)
    ELSE call_positional(
            Restored([krk_ungetToken(P, P.current) EXCEPT !.current = P.previous], view), a)

call_argument(P, a) ==
    IF check(P, "*") \/ check(P, "**")
    THEN call_expanded(match(P, "*"), a)
    ELSE IF check(P, "IDENTIFIER")
         THEN call_identifier(advance(P), a, View(P))
    ELSE IF a.seenKeywordUnpacking
         THEN Args(errorAtCurrent(P), a, TRUE)
    ELSE IF a.keywordArgs > 0
         THEN Args(errorAtCurrent(P), a, TRUE)
    ELSE IF a.specialArgs > 0
         THEN Args(parsePrecedence([P EXCEPT !.c = emitBytes(@, OP_EXPAND_ARGS, 0)],
                                   PREC_ASSIGNMENT),
                   [a EXCEPT !.specialArgs = @ + 1], FALSE)
    ELSE call_positional(P, a)

RECURSIVE call_arguments(_)
call_arguments(r) ==
    IF r.returned \/ ~check(r.P, ",") THEN r
    ELSE call_arguments(call_argument(advance(r.P), r.a))

call_end(P, a) ==
    IF a.specialArgs > 0
    THEN [P EXCEPT !.c = EMIT_CONSTANT_OP(EMIT_CONSTANT_OP(@, OP_KWARGS, a.specialArgs),
                                          OP_CALL, a.argCount + 1 + 2 * a.specialArgs)]
    ELSE [P EXCEPT !.c = EMIT_CONSTANT_OP(@, OP_CALL, a.argCount)]

call_close(r) ==
    IF r.returned THEN r.P
    ELSE call_end(match(IF check(stopEatingWhitespace(r.P), ")")
                        THEN stopEatingWhitespace(r.P)
                        ELSE errorAtCurrent(stopEatingWhitespace(r.P)), ")"),
                  r.a)

call_open(P, a) ==
    IF check(P, ")") THEN Args(P, a, FALSE) ELSE call_arguments(call_argument(P, a))

call(P) ==
    call_close(call_open(startEatingWhitespace(P),
                         [argCount |-> 0, specialArgs |-> 0, keywordArgs |-> 0,
                          seenKeywordUnpacking |-> FALSE]))

(* number(): the integer of the token as a constant.  grouping(): an       *)
(* expression in parentheses, line ends inside it eaten; () is the empty   *)
(* tuple.                                                                  *)
number_token(P) ==
    [P EXCEPT !.c = emitConstant(@, INTEGER_VAL(IF P.previous = "1" THEN 1 ELSE 2))]

grouping_end(P) == consumeToken(stopEatingWhitespace(P), ")")

grouping_open(P) ==
    IF check(P, ")") THEN [P EXCEPT !.c = emitBytes(@, OP_TUPLE, 0)]
    ELSE parsePrecedence(P, PREC_ASSIGNMENT)

grouping(P) == grouping_end(grouping_open(startEatingWhitespace(P)))

(* binary(): the right operand is parsed one level above the operator's    *)
(* own precedence, then the operator's instructions are emitted.           *)
binary_emit(c, operatorType) ==
    CASE operatorType = ">" -> emitByte(c, OP_GREATER)
      [] operatorType = ">=" -> emitBytes(c, OP_LESS, OP_NOT)
      [] operatorType = "<" -> emitByte(c, OP_LESS)
      [] operatorType = "<=" -> emitBytes(c, OP_GREATER, OP_NOT)
      [] operatorType = "*" -> emitByte(c, OP_MULTIPLY)
      [] operatorType = "**" -> emitByte(c, OP_POW)
      [] OTHER -> c

binary_right(P, operatorType) ==
    [parsePrecedence(P, getRule_precedence(operatorType) + 1)
     EXCEPT !.c = binary_emit(@, operatorType)]

binary(P) == binary_right(P, P.previous)

(* krk_rewindScanner(old) and parser = old: scanner and Parser are those   *)
(* of old, the chunk and the errors raised stay.                           *)
Rewind(P, old) == [old EXCEPT !.c = P.c, !.raised = P.raised]

(* actualTernary: the code of the value parsed first is dropped, the       *)
(* condition is compiled, then the else branch, then, with the scanner     *)
(* rewound to where the expression began, the value again.                 *)
actualTernary_end(P, out, elseJump) ==
    Rewind([P EXCEPT !.c = patchJump(@, elseJump)], out)

actualTernary_then(P, old, thenJump) ==
    actualTernary_end(
        parsePrecedence(
            Rewind([P EXCEPT !.c = emitByte(patchJump(emitJump(@, OP_JUMP), thenJump), OP_POP)],
                   old),
            PREC_OR),
        P, Len(P.c.code) + 1)

actualTernary_else(P, old, thenJump) ==
    actualTernary_then(
        parsePrecedence(IF check(P, "else") THEN advance(P) ELSE errorAtCurrent(P), PREC_OR),
        old, thenJump)

actualTernary_cond(P, old) ==
    actualTernary_else([P EXCEPT !.c = emitByte(emitJump(@, OP_JUMP_IF_TRUE), OP_POP)],
                       old, Len(P.c.code) + 1)

actualTernary(P, count, old) ==
    actualTernary_cond(parsePrecedence([P EXCEPT !.c.code = SubSeq(@, 1, count)], PREC_OR),
                       old)

(* parsePrecedence: the prefix rule of the token (variable for an           *)
(* identifier, none for the other tokens of the model when they start an    *)
(* expression), then the infix rules of the tokens that bind at least as    *)
(* tightly as precedence: call, binary, ternary.  count and old are the     *)
(* chunk's count and the parser where the expression begins.                *)
infixRule(P, count, old) ==
    CASE P.previous = "(" -> call(P)
      [] P.previous = "if" -> actualTernary(P, count, old)
      [] OTHER -> binary(P)

RECURSIVE parsePrecedence_infix(_, _, _, _)
parsePrecedence_infix(P, precedence, count, old) ==
    IF precedence <= getRule_precedence(P.current)
    THEN parsePrecedence_infix(infixRule(advance(P), count, old), precedence, count, old)
    ELSE P

parsePrecedence_prefix(P, precedence, count, old) ==
    CASE TokenType(P.previous) = "IDENTIFIER" ->
            parsePrecedence_infix(variable(P), precedence, count, old)
      [] TokenType(P.previous) = "NUMBER" ->
            parsePrecedence_infix(number_token(P), precedence, count, old)
      [] TokenType(P.previous) = "(" ->
            parsePrecedence_infix(grouping(P), precedence, count, old)
      [] OTHER -> errorAtCurrent(P)

parsePrecedence(P, precedence) ==
    parsePrecedence_prefix(advance(P), precedence, Len(P.c.code), P)

(* function(TYPE_FUNCTION) on tokens.  The Compiler of the function is     *)
(* linked in by initCompiler; the parameters are names, *NAME and **NAME   *)
(* (the sources of the model give no defaults and no name twice); the body *)
(* is the rest of the line.  After `Syntax error.` and `Duplicate ** in    *)
(* parameter list.` function() returns at once: endCompiler() is not       *)
(* called, `current` keeps pointing at the Compiler in the frame that has  *)
(* returned (dead), and the whitespace count stays raised.                 *)
OP_IS == 23
OP_DEFINE_GLOBAL == 68

Params(P, hasCollectors, returned) ==
    [P |-> P, hasCollectors |-> hasCollectors, returned |-> returned]

function_required(P) ==
    [P EXCEPT !.c = [markInitialized(addLocal(@, P.previous)) EXCEPT !.requiredArgs = @ + 1]]

function_collector_set(c, myLocal, jumpIndex, synth) ==
    emitByte(
        patchJump(
            endScope(
                emitByte(
                    EMIT_CONSTANT_OP(emitBytes(namedVariable(beginScope(c), synth), OP_CALL, 0),
                                     OP_SET_LOCAL, myLocal),
                    OP_POP)),
            jumpIndex),
        OP_POP)

function_collector_test(c, myLocal, synth) ==
    IF Settled(c) THEN function_collector_set(c, myLocal, Len(c.code) - 2, synth) ELSE c

function_collector(P, synth) ==
    [P EXCEPT !.c =
        function_collector_test(
            emitJump(
                emitByte(
                    emitConstant(
                        EMIT_CONSTANT_OP(markInitialized(addLocal(@, P.previous)),
                                         OP_GET_LOCAL, Len(@.locals)),
                        KWARGS_VAL(0)),
                    OP_IS),
                OP_JUMP_IF_FALSE),
            Len(@.locals), synth)]

function_collects(P, hasCollectors) ==
    IF check(P, "**")
    THEN IF hasCollectors = 2 THEN Params(errorAtCurrent(advance(P)), hasCollectors, TRUE)
         ELSE Params(function_collector(consumeToken(advance(P), "IDENTIFIER"), "dictOf"),
                     2, FALSE)
    ELSE IF hasCollectors # 0 THEN Params(errorAtCurrent(P), hasCollectors, TRUE)
    ELSE Params(function_collector(consumeToken(P, "IDENTIFIER"), "listOf"), 1, FALSE)

function_param(P, hasCollectors) ==
    IF check(P, "*") \/ check(P, "**")
    THEN function_collects(match(P, "*"), hasCollectors)
    ELSE Params(function_required(consumeToken(P, "IDENTIFIER")), hasCollectors, FALSE)

RECURSIVE function_params(_)
function_params(r) ==
    IF r.returned \/ ~check(r.P, ",") THEN r
    ELSE function_params(function_param(advance(r.P), r.hasCollectors))

RECURSIVE declaration(_)
RECURSIVE ifStatement_tokens(_)

expressionStatement_tokens(P) ==
    [parsePrecedence(P, PREC_ASSIGNMENT) EXCEPT !.c = emitByte(@, OP_POP)]

(* The end of a simple statement: a line end, or "Unexpected token after   *)
(* statement."                                                             *)
statement_end(P) ==
    IF check(P, "EOL") \/ check(P, "EOF") THEN advance(P) ELSE errorAtCurrent(P)

statement_tokens(P) ==
    IF check(P, "EOL") \/ check(P, "EOF") THEN advance(P)
    ELSE IF check(P, "if") THEN ifStatement_tokens(P)
    ELSE statement_end(expressionStatement_tokens(P))

(* block(indentation): after a line end, the declarations of the lines     *)
(* indented deeper than `indentation`, as long as they are indented as the *)
(* first one; else one statement on the same line.  (The sources have no   *)
(* docstrings.)                                                            *)
block_turn(P) == IF check(P, "EOL") THEN advance(P) ELSE P

RECURSIVE block_loop(_, _)
block_loop(P, currentIndentation) ==
    IF check(P, "INDENTATION") /\ TokenLength(P.current) >= currentIndentation
    THEN block_loop(block_turn(declaration(advance(P))), currentIndentation)
    ELSE P

block_indented(P, indentation) ==
    IF check(P, "INDENTATION") /\ TokenLength(P.current) > indentation
    THEN block_loop(declaration(advance(P)), TokenLength(P.current))
    ELSE P

block_tokens(P, indentation) ==
    IF check(P, "EOL") THEN block_indented(advance(P), indentation) ELSE statement_tokens(P)

(* blockWidth of a statement: the length of the INDENTATION token before   *)
(* its first token, 0 when there is none.                                  *)
BlockWidth(P) ==
    IF TokenType(P.previous) = "INDENTATION" THEN TokenLength(P.previous) ELSE 0

(* "See if we have a matching else block": P is the parser after the       *)
(* advance() over the INDENTATION token when blockWidth is not 0 and       *)
(* `previous` the token that was previous before it.  With else or elif    *)
(* the statement goes on; with another token, that token is given back to  *)
(* the scanner and current and previous are set back; a line end is passed. *)
ifStatement_unget(P, blockWidth, previous, view) ==
    Restored([krk_ungetToken(P, P.current) EXCEPT
                !.current = P.previous,
                !.previous = IF blockWidth # 0 THEN previous ELSE @], view)

ifStatement_else(P, blockWidth, myPrevious) ==
    IF TokenType(P.current) = "elif" \/ check(P, "if")
    THEN ifStatement_tokens([P EXCEPT !.previous = myPrevious])
    ELSE [block_tokens([consumeToken(P, ":") EXCEPT !.c = beginScope(@)], blockWidth)
          EXCEPT !.c = endScope(@)]

ifStatement_lookahead(P, blockWidth, myPrevious, previous, view) ==
    IF check(P, "else") \/ check(P, "elif")
    THEN ifStatement_else(match(P, "else"), blockWidth, myPrevious)
    ELSE IF ~check(P, "EOF") /\ ~check(P, "EOL")
    THEN ifStatement_unget(P, blockWidth, previous, view)
    ELSE advance(P)

ifStatement_partner(P, blockWidth, myPrevious, elseJump) ==
    [(IF blockWidth = 0
      THEN ifStatement_lookahead(P, blockWidth, myPrevious, P.previous, View(P))
      ELSE IF check(P, "INDENTATION") /\ TokenLength(P.current) = blockWidth
      THEN ifStatement_lookahead(advance(P), blockWidth, myPrevious, P.previous, View(P))
      ELSE P)
     EXCEPT !.c = patchJump(@, elseJump)]

ifStatement_then(P, blockWidth, myPrevious, thenJump) ==
    ifStatement_partner(
        [P EXCEPT !.c = emitByte(patchJump(emitJump(endScope(@), OP_JUMP), thenJump), OP_POP)],
        blockWidth, myPrevious, Len(endScope(P.c).code) + 1)

ifStatement_block(P, blockWidth, myPrevious) ==
    ifStatement_then(
        block_tokens([P EXCEPT !.c = beginScope(emitByte(emitJump(@, OP_JUMP_IF_FALSE), OP_POP))],
                     blockWidth),
        blockWidth, myPrevious, Len(P.c.code) + 1)

ifStatement_tokens(P) ==
    ifStatement_block(consumeToken(parsePrecedence(advance(P), PREC_ASSIGNMENT), ":"),
                      BlockWidth(P), P.previous)

function_end(P) == [P EXCEPT !.c = endFunction(emitReturn(@))]

function_body(r, blockWidth) ==
    IF r.returned THEN [r.P EXCEPT !.dead = TRUE]
    ELSE function_end(
            block_tokens(consumeToken(consumeToken(stopEatingWhitespace(r.P), ")"), ":"),
                         blockWidth))

function_open(P) ==
    IF check(P, ")") THEN Params(P, 0, FALSE) ELSE function_params(function_param(P, 0))

function_tokens(P, blockWidth) ==
    function_body(
        function_open(
            startEatingWhitespace(
                consumeToken([P EXCEPT !.c = beginScope(nestedCompiler(@))], "("))),
        blockWidth)

(* parseVariable and defineVariable: a local inside a scope, else a global  *)
(* named by a constant.                                                     *)
parseVariable(P) ==
    [P EXCEPT !.c = IF @.scopeDepth > 0 THEN addLocal(@, P.previous)
                    ELSE krk_addConstant(@, STRING_VAL(P.previous))]

defineVariable(P, global) ==
    [P EXCEPT !.c = IF @.scopeDepth > 0 THEN markInitialized(@)
                    ELSE EMIT_CONSTANT_OP(@, OP_DEFINE_GLOBAL, global)]

defDeclaration_tokens(P) ==
    defineVariable(
        function_tokens(
            [parseVariable(consumeToken(advance(P), "IDENTIFIER")) EXCEPT !.c = markInitialized(@)],
            BlockWidth(P)),
        IF P.c.scopeDepth > 0 THEN 0 ELSE Len(P.c.constants))

RECURSIVE synchronize(_)
synchronize(P) ==
    IF P.current = "EOF" \/ P.previous = "EOL" \/ P.current \in {"def", "if"} THEN P
    ELSE synchronize(advance(P))

(* declaration(): a def, a blank line, the start of an indented line or a   *)
(* statement(), then synchronize() in panic mode.                           *)
declaration_end(P) ==
    IF P.panicMode THEN synchronize(P) ELSE P

declaration(P) ==
    IF check(P, "def") THEN declaration_end(defDeclaration_tokens(P))
    ELSE IF check(P, "EOL") \/ check(P, "EOF") THEN advance(P)
    ELSE IF check(P, "INDENTATION") THEN declaration_end(P)
    ELSE declaration_end(statement_tokens(P))

(* The sources compiled: one line, two lines, calls on one line and on      *)
(* several, a call whose argument list is an error, an unclosed call, two   *)
(* lines that each start with a token no expression starts with.            *)
Sources ==
    << <<"a", "EOL">>,
       <<"a", "EOL", "b", "EOL">>,
       <<"f", "(", "a", ")", "EOL", "b", "EOL">>,
       <<"f", "(", "EOL", "a", ",", "EOL", "b", ")", "EOL">>,
       <<"f", "(", "*", "a", ",", "**", "b", ")", "EOL", "c", "EOL">>,
       <<"f", "(", "**", "a", ",", "*", "b", ")", "EOL">>,
       <<"f", "(", "a", "EOL">>,
       <<")", "EOL", "a", "EOL", ")", "EOL">>,
       <<"def", "f", "(", "a", ")", ":", "a", "EOL">>,
       <<"def", "f", "(", "a", ",", "*", "b", ",", "**", "c", ")", ":", "EOL", "f", "EOL">>,
       <<"def", "f", "(", "*", "a", ",", "*", "b", ")", ":", "a", "EOL">>,
       <<"def", "f", "(", "**", "a", ",", "**", "b", ")", ":", "a", "EOL">> >>

Threads == 1..MaxThreads

Inside(t) == compiling[t].at # "idle"

(* _obtain_lock: a spin lock, taken when it is free.                        *)
_obtain_lock(lock) == lock = 0

(* krk_compile up to the loop: the lock, krk_initScanner, initCompiler,     *)
(* hadError and panicMode reset, the first advance().                       *)
KrkCompileEnter(t) ==
    /\ pc = "compiler"
    /\ ~Inside(t)
    /\ Len(log) + Cardinality({u \in Threads : Inside(u)}) < MaxCompiles
    /\ _obtain_lock(_compilerLock)
    /\ _compilerLock' = 1
    /\ \E src \in 1..Len(Sources) :
          /\ compiling' = [compiling EXCEPT ![t] = [at |-> "loop", src |-> src]]
          /\ parser' = advance([parser EXCEPT !.rest = Sources[src], !.c = initCompiler,
                                              !.hadError = FALSE, !.panicMode = FALSE,
                                              !.raised = 0, !.dead = FALSE,
                                              !.unget = <<>>, !.ungetTwice = FALSE,
                                              !.lookahead = <<>>])
    /\ UNCHANGED <<prog, pc, chunks, stack, frames, hasException, currentException, log, iterPos, gen, pending, hist, heap, current>>

(* One turn of while (!match(TOKEN_EOF)): declaration(), then advance()     *)
(* over a line end.                                                         *)
krk_compile_turn(P) ==
    IF check(P, "EOL") \/ check(P, "INDENTATION") \/ check(P, "EOF") THEN advance(P) ELSE P

KrkCompileDeclaration(t) ==
    /\ pc = "compiler"
    /\ compiling[t].at = "loop"
    /\ ~check(parser, "EOF")
    /\ parser' = krk_compile_turn(declaration(parser))
    /\ UNCHANGED <<prog, pc, chunks, stack, frames, hasException, currentException, log, iterPos, gen, pending, hist, heap, _compilerLock, compiling, current>>

(* endCompiler() in krk_compile: emitReturn of the Compiler that is         *)
(* current, whose function is finished, and current = current->enclosing.  *)
(* It is the module's Compiler unless function() has returned early: then  *)
(* it is that function's, and the module's is the one left.                 *)
endCompiler(P) ==
    IF P.c.enclosing = <<>>
    THEN [P EXCEPT !.c = emitByte(emitBytes(@, OP_GET_LOCAL, 0), OP_RETURN)]
    ELSE [P EXCEPT !.c = [@.enclosing[1] EXCEPT
                            !.functions = Append(P.c.functions, KrkFunction(emitReturn(P.c)))]]

(* The chunks of the Function objects that initCompiler allocated in this   *)
(* compile: those of the nested functions, then the module's.               *)
Functions(P) == [i \in 1..Len(P.c.functions) |-> P.c.functions[i].code] \o <<P.c.code>>

(* The Compiler records that initCompiler has linked into the chain from   *)
(* `current` (current->enclosing ...), and those that are still linked     *)
(* when krk_compile's endCompiler() has unlinked one: none when `current`  *)
(* is NULL again, as it was before the call.                               *)
RECURSIVE Chain(_)
Chain(c) == IF c.enclosing = <<>> THEN 1 ELSE 1 + Chain(c.enclosing[1])

Unpopped(P) == Chain(P.c) - 1

(* What krk_compile returns: the function, or NULL after an error.          *)
Compiled(P) ==
    IF P.hadError THEN [ok |-> FALSE, code |-> <<>>, constants |-> <<>>]
    ELSE [ok |-> TRUE, code |-> P.c.code, constants |-> P.c.constants]

(* KrkCompileReturn without _release_lock.                                  *)
KrkCompileReturn_unreleased(t) ==
    /\ pc = "compiler"
    /\ compiling[t].at = "loop"
    /\ check(parser, "EOF")
    /\ parser' = endCompiler(advance(parser))
    /\ log' = Append(log, [src |-> compiling[t].src, function |-> Compiled(parser'),
                           raised |-> parser'.raised, functions |-> Functions(parser'),
                           current |-> Unpopped(parser)])
    /\ compiling' = [compiling EXCEPT ![t] = [at |-> "idle", src |-> 0]]
    /\ UNCHANGED <<prog, pc, chunks, stack, frames, hasException, currentException, iterPos, gen, pending, hist, heap, _compilerLock, current>>

(* The end of krk_compile: match(TOKEN_EOF) ends the loop, endCompiler,     *)
(* NULL for the function after an error, _release_lock, return.             *)
KrkCompileReturn(t) ==
    /\ pc = "compiler"
    /\ compiling[t].at = "loop"
    /\ check(parser, "EOF")
    /\ parser' = endCompiler(advance(parser))
    /\ log' = Append(log, [src |-> compiling[t].src, function |-> Compiled(parser'),
                           raised |-> parser'.raised, functions |-> Functions(parser'),
                           current |-> Unpopped(parser)])
    /\ _compilerLock' = 0
    /\ compiling' = [compiling EXCEPT ![t] = [at |-> "idle", src |-> 0]]
    /\ UNCHANGED <<prog, pc, chunks, stack, frames, hasException, currentException, iterPos, gen, pending, hist, heap, current>>

(* After function() has returned early every use of `current` reads the    *)
(* Compiler of a frame that is gone: the compile goes on as if it were      *)
(* still there (the actions above), or the process stops here.              *)
KrkCompileCrash(t) ==
    /\ pc = "compiler"
    /\ compiling[t].at = "loop"
    /\ parser.dead
    /\ compiling' = [compiling EXCEPT ![t] = [at |-> "crashed", src |-> compiling[t].src]]
    /\ UNCHANGED <<prog, pc, chunks, stack, frames, hasException, currentException, log, iterPos, gen, pending, hist, heap, parser, _compilerLock, current>>

(* krk_compile of the one line of an expression program, as one step, and  *)
(* the module's function in the first frame.                               *)
RECURSIVE krk_compile_loop(_)
krk_compile_loop(P) ==
    IF check(P, "EOF") THEN endCompiler(advance(P))
    ELSE krk_compile_loop(krk_compile_turn(declaration(P)))

krk_compile_source(tokens) ==
    krk_compile_loop(
        advance([current |-> "EOF", previous |-> "EOF", rest |-> tokens,
                 eatingWhitespace |-> 0, hadError |-> FALSE, panicMode |-> FALSE,
                 c |-> initCompiler, raised |-> 0, dead |-> FALSE,
                 unget |-> <<>>, ungetTwice |-> FALSE, lookahead |-> <<>>]))

CompileSource ==
    /\ pc = "compile"
    /\ prog.kind = "expression"
    /\ IF krk_compile_source(ExpressionTokens(prog)).hadError
       THEN /\ pc' = "error"
            /\ UNCHANGED <<chunks, stack, frames>>
       ELSE /\ pc' = "run"
            /\ chunks' = <<KrkFunction(krk_compile_source(ExpressionTokens(prog)).c)>>
            /\ stack' = <<OBJECT_VAL("function", 1)>>
            /\ frames' = <<[closure |-> 1, ip |-> 0, slots |-> 0, outSlots |-> 0, env |-> 0]>>
    /\ UNCHANGED <<prog, hasException, currentException, log, iterPos, gen, pending, hist, heap, static>>

InitCompiler ==
    /\ prog = <<>>
    /\ pc = "compiler"
    /\ chunks = <<>>
    /\ stack = <<>>
    /\ frames = <<>>
    /\ hasException = FALSE
    /\ currentException = NONE_VAL
    /\ log = <<>>
    /\ iterPos = 0
    /\ gen = <<>>
    /\ pending = <<>>
    /\ hist = <<>>
    /\ heap = <<>>
    /\ current = <<>>
    /\ parser = [current |-> "EOF", previous |-> "EOF", rest |-> <<>>, eatingWhitespace |-> 0,
                 hadError |-> FALSE, panicMode |-> FALSE, c |-> initCompiler, raised |-> 0,
                 dead |-> FALSE, unget |-> <<>>, ungetTwice |-> FALSE, lookahead |-> <<>>]
    /\ _compilerLock = 0
    /\ compiling = [t \in Threads |-> [at |-> "idle", src |-> 0]]

NextCompiler ==
    \/ \E t \in Threads : KrkCompileEnter(t)
    \/ \E t \in Threads : KrkCompileDeclaration(t)
    \/ \E t \in Threads : KrkCompileReturn(t)
    \/ \E t \in Threads : KrkCompileCrash(t)

SpecCompiler == InitCompiler /\ [][NextCompiler]_vars

-----------------------------------------------------------------------------
(* One krk_compile of a source, a declaration at a time, by one thread;    *)
(* hist is the source compiled and log the tokens that were current when   *)
(* a declaration began.  The sources are calls f(ARG, ...), each argument  *)
(* a name, a number, an expression in parentheses, NAME = value, **NAME or *)
(* *NAME.                                                                  *)
MaxArgs == 3

ArgumentForms == {"name", "number", "group", "keyword", "kwexpand", "expand"}

ArgumentTokens(form) ==
    CASE form = "name" -> <<"c">>
      [] form = "number" -> <<"1">>
      [] form = "group" -> <<"(", "c", ")">>
      [] form = "keyword" -> <<"a", "=", "b">>
      [] form = "kwexpand" -> <<"**", "d">>
      [] OTHER -> <<"*", "e">>

RECURSIVE ArgumentList(_)
ArgumentList(args) ==
    IF args = <<>> THEN <<>>
    ELSE IF Len(args) = 1 THEN ArgumentTokens(args[1])
    ELSE ArgumentTokens(Head(args)) \o <<",">> \o ArgumentList(Tail(args))

CallSources ==
    {[kind |-> "call", args |-> a, tokens |-> <<"f", "(">> \o ArgumentList(a) \o <<")", "EOL">>] :
        a \in SeqsUpTo(ArgumentForms, MaxArgs)}

(* if statements, at the start of a module or as the first statement of a  *)
(* function body indented by four columns: the block on the line of the    *)
(* if, on an indented line of its own, or another if on the same line;     *)
(* after the block a statement, an else, an elif, the end of the source or *)
(* a blank line.  A function is followed by a statement of the module.     *)
IfPlaces == {"module", "def"}
IfBodies == {"inline", "indented", "nested"}
IfFollows == {"statement", "else", "elif", "end", "blank"}

IfIndentation(place) == IF place = "def" THEN <<"INDENT4">> ELSE <<>>

IfBodyTokens(place, body) ==
    CASE body = "inline" -> <<"b", "EOL">>
      [] body = "indented" ->
            <<"EOL", IF place = "def" THEN "INDENT8" ELSE "INDENT4", "b", "EOL">>
      [] OTHER -> <<"if", "g", ":", "b", "EOL">>

IfFollowTokens(place, follow) ==
    CASE follow = "statement" -> IfIndentation(place) \o <<"c", "EOL">>
      [] follow = "else" ->
            IfIndentation(place) \o <<"else", ":", "c", "EOL">>
                \o IfIndentation(place) \o <<"d", "EOL">>
      [] follow = "elif" ->
            IfIndentation(place) \o <<"elif", "e", ":", "c", "EOL">>
                \o IfIndentation(place) \o <<"d", "EOL">>
      [] follow = "blank" ->
            IfIndentation(place) \o <<"EOL">> \o IfIndentation(place) \o <<"c", "EOL">>
      [] OTHER -> <<>>

IfTokens(place, body, follow) ==
    (IF place = "def" THEN <<"def", "f", "(", ")", ":", "EOL">> ELSE <<>>)
        \o IfIndentation(place) \o <<"if", "a", ":">> \o IfBodyTokens(place, body)
        \o IfFollowTokens(place, follow)
        \o (IF place = "def" THEN <<"h", "EOL">> ELSE <<>>)

IfSources ==
    {[kind |-> "if", args |-> <<p, b, f>>, tokens |-> IfTokens(p, b, f)] :
        p \in IfPlaces, b \in IfBodies, f \in IfFollows}

ParserSources == CallSources \cup IfSources

ParserDeclaration ==
    /\ pc = "parser"
    /\ ~check(parser, "EOF")
    /\ parser' = krk_compile_turn(declaration(parser))
    /\ log' = Append(log, parser.current)
    /\ UNCHANGED <<prog, pc, chunks, stack, frames, hasException, currentException, iterPos, gen, pending, hist, heap, _compilerLock, compiling, current>>

ParserReturn ==
    /\ pc = "parser"
    /\ check(parser, "EOF")
    /\ parser' = endCompiler(advance(parser))
    /\ pc' = "parsed"
    /\ UNCHANGED <<prog, chunks, stack, frames, hasException, currentException, log, iterPos, gen, pending, hist, heap, _compilerLock, compiling, current>>

InitParser ==
    /\ prog = <<>>
    /\ pc = "parser"
    /\ chunks = <<>>
    /\ stack = <<>>
    /\ frames = <<>>
    /\ hasException = FALSE
    /\ currentException = NONE_VAL
    /\ log = <<>>
    /\ iterPos = 0
    /\ gen = <<>>
    /\ pending = <<>>
    /\ hist \in ParserSources
    /\ heap = <<>>
    /\ current = <<>>
    /\ parser = advance([current |-> "EOF", previous |-> "EOF", rest |-> hist.tokens,
                         eatingWhitespace |-> 0, hadError |-> FALSE, panicMode |-> FALSE,
                         c |-> initCompiler, raised |-> 0, dead |-> FALSE,
                         unget |-> <<>>, ungetTwice |-> FALSE, lookahead |-> <<>>])
    /\ _compilerLock = 1
    /\ compiling = <<>>

NextParser ==
    \/ ParserDeclaration
    \/ ParserReturn

SpecParser == InitParser /\ [][NextParser]_vars

-----------------------------------------------------------------------------
(* The upvalues of one function, from the compiler to the closure.  The    *)
(* function captures `count` variables of the function around it, one      *)
(* after the other from slot `first`: locals of that function (isLocal) or *)
(* upvalues of it.  addUpvalue records them in current->upvalues,          *)
(* doUpvalues writes a descriptor for each after CLOSURE, a turn of its    *)
(* loop at a time, and CLOSURE reads the descriptors back, one at a time.  *)
(* hist keeps the number of bytes of each descriptor written, log the      *)
(* (isLocal, index) pairs read, iterPos the position in the loop and       *)
(* pending the offset read next.                                           *)
MaxUpvalues == 2
MaxLong == 1

FirstSlots == {0, 254, 255, 256}

UpvaluePrograms ==
    {[kind |-> "upvalues", first |-> f, count |-> n, isLocal |-> l] :
        f \in FirstSlots, n \in 1..MaxUpvalues, l \in BOOLEAN}
    \cup {[kind |-> "upvalues", first |-> 0, count |-> 256 + n, isLocal |-> l] :
            n \in 1..MaxLong, l \in BOOLEAN}

(* resolveUpvalue finds the next variable: addUpvalue(index, isLocal).      *)
AddUpvalue ==
    /\ pc = "resolveUpvalue"
    /\ current' = addUpvalue(current, prog.first + Len(current.upvalues), prog.isLocal).c
    /\ pc' = IF Len(current.upvalues) + 1 = prog.count THEN "doUpvalues" ELSE pc
    /\ UNCHANGED <<prog, chunks, stack, frames, hasException, currentException, log, iterPos, gen, pending, hist, heap, parser, _compilerLock, compiling>>

(* for (i = 0; i < upvalueCount; ++i): one descriptor.                      *)
DoUpvalue ==
    /\ pc = "doUpvalues"
    /\ current' = doUpvalues_turn(current, current.upvalues[iterPos + 1], iterPos)
    /\ hist' = Append(hist, Len(current'.code) - Len(current.code))
    /\ iterPos' = IF iterPos + 1 = Len(current.upvalues) THEN 0 ELSE iterPos + 1
    /\ pc' = IF iterPos + 1 = Len(current.upvalues) THEN "closure" ELSE pc
    /\ UNCHANGED <<prog, chunks, stack, frames, hasException, currentException, log, gen, pending, heap, parser, _compilerLock, compiling>>

(* CLOSURE reads descriptor iterPos at offset pending: the flag byte, then *)
(* the index in three bytes where doUpvalues writes three, else in one.    *)
ReadIndex(code, offset, i) ==
    IF i > 255
    THEN code[offset + 2] * 65536 + code[offset + 3] * 256 + code[offset + 4]
    ELSE code[offset + 2]

ReadUpvalue ==
    /\ pc = "closure"
    /\ log' = Append(log, [index |-> ReadIndex(current.code, pending, iterPos),
                           isLocal |-> current.code[pending + 1] = 1])
    /\ pending' = pending + (IF iterPos > 255 THEN 4 ELSE 2)
    /\ iterPos' = iterPos + 1
    /\ pc' = IF iterPos + 1 = Len(current.upvalues) THEN "closed" ELSE pc
    /\ UNCHANGED <<prog, chunks, stack, frames, hasException, currentException, gen, hist, heap, parser, _compilerLock, compiling, current>>

InitUpvalues ==
    /\ prog \in UpvaluePrograms
    /\ pc = "resolveUpvalue"
    /\ chunks = <<>>
    /\ stack = <<>>
    /\ frames = <<>>
    /\ hasException = FALSE
    /\ currentException = NONE_VAL
    /\ log = <<>>
    /\ iterPos = 0
    /\ gen = <<>>
    /\ pending = 0
    /\ hist = <<>>
    /\ heap = <<>>
    /\ current = initCompiler
    /\ parser = <<>>
    /\ _compilerLock = 0
    /\ compiling = <<>>

NextUpvalues ==
    \/ AddUpvalue
    \/ DoUpvalue
    \/ ReadUpvalue

SpecUpvalues == InitUpvalues /\ [][NextUpvalues]_vars

-----------------------------------------------------------------------------
(* The collector.  `heap` is the allocator's live list: an object is a      *)
(* record, a reference is its index in the list and 0 is NULL or a value    *)
(* that is no object.  Freed is what sweeping leaves of an object.          *)
(* `current` is the chain of Compiler structs, innermost last; each lives   *)
(* in the C stack frame of krk_compile or function(), and `dead` says that  *)
(* this frame has returned.  `frames` holds the frame of the generator that *)
(* is running.                                                              *)

Freed == [type |-> "freed"]
IsObject(h, o) == o \in 1..Len(h) /\ h[o].type # "freed"
IsType(h, o, type) == o \in 1..Len(h) /\ h[o].type = type
Values(s) == {s[i] : i \in 1..Len(s)}
Live(chain) == {i \in 1..Len(chain) : ~chain[i].dead}

(* _generator_gcscan: the closure, args[0..argCount) and the result.        *)
_generator_gcscan(self) ==
    {self.closure} \cup {self.args[i] : i \in 1..self.argCount} \cup {self.result}

(* What marking an object grays: a function's constants, a closure's        *)
(* function, an instance's _ongcscan.                                       *)
blackenObject(o) ==
    CASE o.type = "function" -> Values(o.constants)
      [] o.type = "closure" -> {o.function}
      [] o.type = "generator" -> _generator_gcscan(o)
      [] OTHER -> {}

Grayed(h, gray) == gray \cup {o \in UNION {blackenObject(h[g]) : g \in gray} : o # 0}

RECURSIVE traceReferences(_, _)
traceReferences(h, gray) ==
    IF Grayed(h, gray) = gray THEN gray ELSE traceReferences(h, Grayed(h, gray))

(* krk_markCompilerRoots: the function of each compiler from `current`      *)
(* along `enclosing`.  A struct whose frame has returned is read after its  *)
(* lifetime: either the fields are still what they were (intact) or the     *)
(* memory was reused and both read as NULL.                                 *)
RECURSIVE krk_markCompilerRoots(_, _)
krk_markCompilerRoots(chain, intact) ==
    IF chain = <<>> THEN {}
    ELSE IF chain[Len(chain)].dead /\ ~intact THEN {}
    ELSE {chain[Len(chain)].function}
            \cup krk_markCompilerRoots(SubSeq(chain, 1, Len(chain) - 1), intact)

(* A collection: mark the roots (the thread's value stack, the compilers),  *)
(* trace, sweep the unmarked.                                               *)
markRoots(stk, chain, intact) ==
    {o \in Values(stk) \cup krk_markCompilerRoots(chain, intact) : o # 0}
sweep(h, marked) == [o \in 1..Len(h) |-> IF o \in marked THEN h[o] ELSE Freed]
krk_collectGarbage(h, stk, chain, intact) ==
    sweep(h, traceReferences(h, markRoots(stk, chain, intact)))

(* krk_reallocate growing a block: the heaps the allocation can start from. *)
krk_reallocate(h, stk, chain) ==
    {h} \cup {krk_collectGarbage(h, stk, chain, intact) : intact \in BOOLEAN}

AddConstant(h, f, value) ==
    [h EXCEPT ![f] = [@ EXCEPT !.constants = Append(@, value)]]

Collecting == pc = "collector"
Room == Len(heap) < MaxObjects
Front(s) == SubSeq(s, 1, Len(s) - 1)
CollectorStep(h, stk, chain, fr) ==
    /\ heap' = h
    /\ stack' = stk
    /\ current' = chain
    /\ frames' = fr
    /\ UNCHANGED <<prog, pc, chunks, hasException, currentException, log, iterPos, gen,
                   pending, hist, parser, _compilerLock, compiling>>

(* initCompiler: the struct is linked in with function NULL, then           *)
(* krk_newFunction() allocates.                                             *)
CollectorInitCompiler ==
    \E h \in krk_reallocate(heap, stack, Append(current, [function |-> 0, dead |-> FALSE])) :
        CollectorStep(Append(h, [type |-> "function", constants |-> <<>>]), stack,
                      Append(current, [function |-> Len(heap) + 1, dead |-> FALSE]), frames)

(* krk_compile up to its loop: initCompiler(TYPE_MODULE).  No compile is    *)
(* running (_compilerLock).                                                 *)
CollectorCompile ==
    /\ Collecting /\ Room
    /\ Live(current) = {}
    /\ Len(current) < MaxDepth + 1
    /\ CollectorInitCompiler

(* function() at `def`: initCompiler(TYPE_FUNCTION) inside the compiler     *)
(* that is current.                                                         *)
CollectorFunction ==
    /\ Collecting /\ Room
    /\ current # <<>> /\ ~Top(current).dead
    /\ Cardinality(Live(current)) < MaxDepth + 1
    /\ CollectorInitCompiler

(* identifierConstant: krk_copyString allocates the string, krk_addConstant *)
(* pushes it, grows the constants and pops it.                              *)
CollectorConstant ==
    /\ Collecting /\ Room
    /\ current # <<>> /\ ~Top(current).dead
    /\ \E h1 \in krk_reallocate(heap, stack, current) :
       \E h2 \in krk_reallocate(Append(h1, [type |-> "string"]),
                                Append(stack, Len(heap) + 1), current) :
            CollectorStep(AddConstant(h2, Top(current).function, Len(heap) + 1),
                          stack, current, frames)

(* function() at its end: endCompiler() unlinks the compiler, and           *)
(* krk_addConstant puts the function among the enclosing chunk's constants. *)
CollectorEndFunction ==
    /\ Collecting
    /\ Cardinality(Live(current)) >= 2 /\ ~Top(current).dead
    /\ \E h \in krk_reallocate(heap, Append(stack, Top(current).function), Front(current)) :
            CollectorStep(AddConstant(h, Top(Front(current)).function, Top(current).function),
                          stack, Front(current), frames)

(* function() at `Duplicate ** in parameter list.` or `Syntax error.`: it   *)
(* returns without endCompiler(), and `current` keeps pointing at the       *)
(* Compiler of the frame that returned.                                     *)
CollectorFunctionError ==
    /\ Collecting
    /\ Cardinality(Live(current)) >= 2 /\ ~Top(current).dead
    /\ CollectorStep(heap, stack, [current EXCEPT ![Len(current)].dead = TRUE], frames)

(* krk_compile after its loop.  Without an error, endCompiler() (emitReturn *)
(* may grow the code) unlinks the module's compiler and the function is     *)
(* returned; krk_interpret pushes it.  After function()'s early return      *)
(* `current = current->enclosing` reads the dead struct, and NULL is        *)
(* returned; the module's Compiler dies with krk_compile's frame.           *)
CollectorCompileEnd ==
    /\ Collecting
    /\ Cardinality(Live(current)) = 1
    /\ Len(stack) < MaxStack
    /\ \E h \in krk_reallocate(heap, stack, current) :
         IF ~Top(current).dead
         THEN CollectorStep(h, Append(stack, Top(current).function), Front(current), frames)
         ELSE \E intact \in BOOLEAN :
                CollectorStep(h, stack,
                    IF intact
                    THEN [i \in 1..(Len(current) - 1) |-> [current[i] EXCEPT !.dead = TRUE]]
                    ELSE <<>>,
                    frames)

(* An allocation that adds no object (krk_writeChunk growing the code), or  *)
(* collect().                                                               *)
CollectorCollect ==
    /\ Collecting
    /\ \E h \in krk_reallocate(heap, stack, current) :
         /\ h # heap
         /\ CollectorStep(h, stack, current, frames)

(* OP_CLOSURE: a closure of the function on the stack top or of one of its  *)
(* constants is allocated and pushed.                                       *)
CollectorClosure ==
    /\ Collecting /\ Room
    /\ Len(stack) < MaxStack
    /\ \E f \in 1..Len(heap) :
         /\ IsType(heap, f, "function")
         /\ stack # <<>>
         /\ IsType(heap, Top(stack), "function")
         /\ f = Top(stack) \/ f \in Values(heap[Top(stack)].constants)
         /\ \E h \in krk_reallocate(heap, stack, current) :
              CollectorStep(Append(h, [type |-> "closure", function |-> f]),
                            Append(stack, Len(heap) + 1), current, frames)

(* A string is allocated and pushed by the code that runs.                  *)
CollectorPush ==
    /\ Collecting /\ Room
    /\ Len(stack) < MaxStack
    /\ \E h \in krk_reallocate(heap, stack, current) :
         CollectorStep(Append(h, [type |-> "string"]), Append(stack, Len(heap) + 1),
                       current, frames)

(* OP_POP in the code that runs.                                            *)
CollectorPop ==
    /\ Collecting
    /\ Len(stack) > (IF frames = <<>> THEN 0 ELSE Top(frames).slots)
    /\ CollectorStep(heap, Front(stack), current, frames)

(* krk_buildGenerator(closure, argsIn, argCount), at the call of a closure  *)
(* with argCount arguments on the stack: the arguments are copied,          *)
(* krk_newInstance allocates, and the generator is the call's result.       *)
CollectorBuildGenerator ==
    /\ Collecting /\ Room
    /\ frames = <<>>
    /\ \E argCount \in 0..(Len(stack) - 1) :
         /\ IsType(heap, stack[Len(stack) - argCount], "closure")
         /\ \E h \in krk_reallocate(heap, stack, current) :
              CollectorStep(
                Append(h, [type |-> "generator", closure |-> stack[Len(stack) - argCount],
                           args |-> SubSeq(stack, Len(stack) - argCount + 1, Len(stack)),
                           argCount |-> argCount, ip |-> 1, started |-> FALSE, result |-> 0]),
                Append(SubSeq(stack, 1, Len(stack) - argCount - 1), Len(heap) + 1),
                current, frames)

(* generator.__call__ up to krk_runNext(): the frame is prepared and the    *)
(* saved slice is pushed; in a generator that has started, the top is       *)
(* replaced by the value sent (None).                                       *)
CollectorResume ==
    /\ Collecting
    /\ frames = <<>> /\ stack # <<>>
    /\ IsType(heap, Top(stack), "generator")
    /\ heap[Top(stack)].ip # NULL
    /\ Len(stack) + heap[Top(stack)].argCount <= MaxStack
    /\ CollectorStep(heap,
            stack \o [i \in 1..heap[Top(stack)].argCount |->
                        IF heap[Top(stack)].started /\ i = heap[Top(stack)].argCount
                        THEN 0 ELSE heap[Top(stack)].args[i]],
            current, <<[generator |-> Top(stack), slots |-> Len(stack)]>>)

(* generator.__call__ after krk_runNext() returned at a yield: the stack    *)
(* above the frame's slots is saved in args and the stack is cut back.      *)
CollectorYield ==
    /\ Collecting
    /\ frames # <<>> /\ Len(stack) > Top(frames).slots
    /\ CollectorStep(
            [heap EXCEPT ![Top(frames).generator] =
                [@ EXCEPT !.args = SubSeq(stack, Top(frames).slots + 1, Len(stack)),
                          !.argCount = Len(stack) - Top(frames).slots,
                          !.started = TRUE]],
            SubSeq(stack, 1, Top(frames).slots), current, <<>>)

(* generator.__call__ after krk_runNext() returned at the function's end:   *)
(* result = krk_pop(), and the generator is done.                           *)
CollectorReturn ==
    /\ Collecting
    /\ frames # <<>> /\ Len(stack) > Top(frames).slots
    /\ CollectorStep(
            [heap EXCEPT ![Top(frames).generator] =
                [@ EXCEPT !.result = Top(stack), !.ip = NULL, !.started = TRUE]],
            SubSeq(stack, 1, Top(frames).slots), current, <<>>)

InitCollector ==
    /\ prog = <<>>
    /\ pc = "collector"
    /\ chunks = <<>>
    /\ stack = <<>>
    /\ frames = <<>>
    /\ hasException = FALSE
    /\ currentException = NONE_VAL
    /\ log = <<>>
    /\ iterPos = 0
    /\ gen = <<>>
    /\ pending = <<>>
    /\ hist = <<>>
    /\ heap = <<>>
    /\ current = <<>>
    /\ parser = <<>>
    /\ _compilerLock = 0
    /\ compiling = <<>>

NextCollector ==
    \/ CollectorCompile
    \/ CollectorFunction
    \/ CollectorConstant
    \/ CollectorEndFunction
    \/ CollectorFunctionError
    \/ CollectorCompileEnd
    \/ CollectorCollect
    \/ CollectorClosure
    \/ CollectorPush
    \/ CollectorPop
    \/ CollectorBuildGenerator
    \/ CollectorResume
    \/ CollectorYield
    \/ CollectorReturn

SpecCollector == InitCollector /\ [][NextCollector]_vars

-----------------------------------------------------------------------------
Init ==
    /\ prog \in Programs
    /\ pc = "compile"
    /\ chunks = <<>>
    /\ stack = <<>>
    /\ frames = <<>>
    /\ hasException = FALSE
    /\ currentException = NONE_VAL
    /\ log = <<>>
    /\ iterPos = 0
    /\ heap = <<>>
    /\ current = <<>>
    /\ parser = <<>>
    /\ _compilerLock = 0
    /\ compiling = <<>>
    /\ gen = <<>>
    /\ pending = <<>>
    /\ hist = <<>>

Next ==
    \/ Compile
    \/ CompileSource
    \/ OpLess
    \/ OpGreater
    \/ OpNot
    \/ OpPow
    \/ OpNone
    \/ OpPop
    \/ OpConstant
    \/ OpKwargs
    \/ OpClosure
    \/ OpInc
    \/ OpCallStack
    \/ OpGetUpvalue
    \/ OpCloseUpvalue
    \/ OpGetGlobal
    \/ OpGetLocal
    \/ OpSetLocal
    \/ OpGetProperty
    \/ OpEqual
    \/ OpJump
    \/ OutsideChunk
    \/ OpJumpIfTrue
    \/ OpJumpIfFalse
    \/ OpLoop
    \/ OpCall
    \/ OpReturn
    \/ OpRaise
    \/ OpPushTry
    \/ OpPushWith
    \/ OpCleanupWith
    \/ handleException

Spec == Init /\ [][Next]_vars

-----------------------------------------------------------------------------
(* Properties.  What the log shows of a run of a with / try program.        *)
Truthy(i) == ~krk_isFalsey(prog.exits[i])
Printed(n) == \E j \in 1..Len(log) : log[j] = Event("print", 0, INTEGER_VAL(n))
ExceptionalExit(j) == log[j].ev = "exit" /\ ~IS_NONE(log[j].a)
IsEnter(e) == e.ev = "enter"
IsExit(e) == e.ev = "exit"
Managers(events) == [j \in 1..Len(events) |-> events[j].o]
BodyRaises == prog.kind = "with" /\ prog.body # "pass"

(* C1: an exception raised in a with body is suppressed if and only if      *)
(* __exit__ returns a truthy value.  After an exceptional __exit__ of       *)
(* manager i that returned a truthy value, the run goes on right after that *)
(* with statement (mark 10 + i is the next thing printed); after one that   *)
(* returned None or another falsy value, the same exception goes on to the  *)
(* enclosing handler: the next manager out, else the except block (mark 4), *)
(* else it ends the run uncaught.  And a run whose body raised ends with    *)
(* the exception neither caught nor pending exactly when some manager       *)
(* returned a truthy value.                                                 *)
C1_SuppressedIffTruthy ==
    prog.kind = "with" =>
      /\ \A j \in 1..Len(log) :
            ExceptionalExit(j) =>
              IF Truthy(log[j].o)
              THEN /\ j < Len(log) =>
                        log[j + 1] = Event("print", 0, INTEGER_VAL(10 + log[j].o))
                   /\ pc = "done" => j < Len(log)
              ELSE /\ j < Len(log) =>
                        log[j + 1] = IF log[j].o > 1
                                     THEN Event("exit", log[j].o - 1, log[j].a)
                                     ELSE Event("print", 0, INTEGER_VAL(4))
                   /\ pc = "done" =>
                        IF log[j].o > 1 \/ prog.outerTry
                        THEN j < Len(log)
                        ELSE hasException /\ currentException = log[j].a
      /\ (pc = "done" /\ BodyRaises) =>
            ((~hasException /\ ~Printed(4)) <=> \E i \in 1..Len(prog.exits) : Truthy(i))

C1_Witness ==
    /\ pc = "done"
    /\ prog.kind = "with"
    /\ \E j, k \in 1..Len(log) :
          /\ ExceptionalExit(j) /\ Truthy(log[j].o)
          /\ ExceptionalExit(k) /\ ~Truthy(log[k].o)

(* The try statement of main is its first statement: PUSH_TRY is at offset  *)
(* 0 of main's chunk, and its operand gives the handler's target.           *)
TryTarget == 3 + chunks[1].code[2] * 256 + chunks[1].code[3]
AtTryTarget ==
    /\ pc = "run"
    /\ prog.kind = "with"
    /\ prog.outerTry
    /\ ~hasException
    /\ frames # <<>>
    /\ frame.closure = 1
    /\ frame.ip = TryTarget

(* C2 as stated: whenever the body of a try raises, in the frame of the try *)
(* or in one called from it, execution resumes at the try handler's target, *)
(* so that the except block (mark 4) has run by the end.                    *)
C2_AlwaysResumesAtTry ==
    (pc = "done" /\ BodyRaises /\ prog.outerTry) => Printed(4)

(* C2, amended: an exception raised while a try handler is installed, in    *)
(* the frame that executed PUSH_TRY or in a frame called from it, resumes   *)
(* execution at the target of that try handler unless a with handler        *)
(* installed after it suppresses the exception.  At the target only the     *)
(* installing frame is left, the stack is cut back to the handler's slot    *)
(* (slot 1 of main, above the callee), and that slot holds the exception.   *)
C2_ResumesAtTryUnlessSuppressed ==
    /\ (pc = "done" /\ BodyRaises /\ prog.outerTry) =>
          (Printed(4) <=> ~\E i \in 1..Len(prog.exits) : Truthy(i))
    /\ AtTryTarget =>
          /\ Len(frames) = 1
          /\ Len(stack) = 2
          /\ stack[2] = OBJECT_VAL("ValueError", 0)
          /\ stack[2] = currentException

C2_Witness ==
    /\ AtTryTarget
    /\ prog.inCallee
    /\ prog.body = "callraise"
    /\ Len(prog.exits) >= 2

(* C4: `with A as a, B as b, C as c:` behaves like three nested with        *)
(* statements: by the end of the run __enter__ has run for a, b, c in that  *)
(* order and __exit__ for c, b, a in that order, whether the body raises    *)
(* or not.                                                                  *)
C4_MultipleItemsNest ==
    (prog.kind = "with" /\ prog.multi /\ Len(prog.exits) = 3 /\ pc \in {"done", "error"}) =>
        /\ Managers(SelectSeq(log, IsEnter)) = <<1, 2, 3>>
        /\ Managers(SelectSeq(log, IsExit)) = <<3, 2, 1>>

(* C10: a for loop ends exactly when the iterator returns itself, by        *)
(* identity: every element of the list is printed by the loop's body, also  *)
(* an element whose __eq__ answers True to everything, and then mark 5      *)
(* after the loop.                                                          *)
C10_LoopEndsByIdentity ==
    (prog.kind = "for" /\ pc = "done") =>
        [j \in 1..Len(log) |-> log[j].a] = Append(prog.items, INTEGER_VAL(5))

(* C13: with the clauses `except TypeError:` and `except ValueError:` on    *)
(* one try, the exception raised in the body is handled by the first clause *)
(* whose class it is an instance of (SpecialException is a ValueError) and  *)
(* only that clause's block runs; one that matches no clause (NameError)    *)
(* leaves the function as it was raised.  The blocks print 21 and 22, the   *)
(* body 1 before it raises, the statement after the try 5.                  *)
C13_FirstMatchingClause ==
    (prog.kind = "except" /\ pc \in {"done", "error"}) =>
        [j \in 1..Len(log) |-> log[j].a.v] =
            CASE prog.body = "pass" -> <<1, 5>>
              [] prog.body = "TypeError" -> <<1, 21, 5>>
              [] prog.body = "NameError" -> <<1>>
              [] OTHER -> <<1, 22, 5>>

(* C14: no object that can be reached from a root is freed: the roots are   *)
(* the values of the thread's stack and the function of every compiler in   *)
(* progress; a function reaches its constants, a closure its function, a    *)
(* generator its closure, its saved stack slice and its result.             *)
References(o) ==
    CASE o.type = "function" -> Values(o.constants)
      [] o.type = "closure" -> {o.function}
      [] o.type = "generator" -> {o.closure, o.result} \cup Values(o.args)
      [] OTHER -> {}
Reached(from) == from \cup {o \in UNION {References(heap[g]) : g \in from} : o # 0}
RECURSIVE Reachable(_)
Reachable(from) == IF Reached(from) = from THEN from ELSE Reachable(Reached(from))
Roots == {o \in Values(stack) \cup {current[i].function : i \in Live(current)} : o # 0}
C14_ReachableNeverFreed ==
    Collecting => \A o \in Reachable(Roots) : heap[o].type # "freed"

(* C12: in a call of f(a, p1=d1(), p2=d2()) the default of a parameter is   *)
(* evaluated exactly when the caller supplied no value for it, the defaults *)
(* that are evaluated run in parameter order, and a parameter the caller    *)
(* supplied holds the value passed (None, 0, False or an object that        *)
(* compares equal to everything), the others the value of their default.    *)
IsDefault(e) == e.ev = "default"
IsPrint(e) == e.ev = "print"
Unsupplied(p) ==
    SelectSeq([i \in 1..Len(p.items) |-> i], LAMBDA i : p.items[i] = KWARGS_VAL(0))
C12_DefaultIffUnsupplied ==
    (prog.kind = "defaults" /\ pc = "done") =>
        /\ ~hasException
        /\ Managers(SelectSeq(log, IsDefault)) = Unsupplied(prog)
        /\ [j \in 1..Len(SelectSeq(log, IsPrint)) |-> SelectSeq(log, IsPrint)[j].a] =
                [i \in 1..Len(prog.items) |->
                    IF prog.items[i] = KWARGS_VAL(0) THEN INTEGER_VAL(100 + i)
                    ELSE prog.items[i]] \o <<INTEGER_VAL(5)>>

(* f(v0, p2=None) has run: d1() was called, p2 is None.                      *)
C12_Witness ==
    /\ prog.kind = "defaults" /\ pc = "done"
    /\ prog.multi
    /\ prog.items = <<KWARGS_VAL(0), NONE_VAL>>
    /\ Managers(SelectSeq(log, IsDefault)) = <<1>>

(* C11: the list a comprehension [fn(x) for x in xs] produces equals the   *)
(* list built by appending fn(x) to an empty list in a loop for x in xs,   *)
(* and fn is called on the same elements, in the same order, the same      *)
(* number of times.                                                        *)
IsList(o) == o.type = "list"
IsCall(e) == e.ev = "fn"
IsMark(e) == e = Event("print", 0, INTEGER_VAL(1))
MarkAt == CHOOSE i \in 1..Len(log) : IsMark(log[i])
CallsBefore == SelectSeq(SubSeq(log, 1, MarkAt - 1), IsCall)
CallsAfter == SelectSeq(SubSeq(log, MarkAt + 1, Len(log)), IsCall)
C11_ComprehensionIsLoop ==
    (prog.kind = "comprehension" /\ pc = "done") =>
        /\ ~hasException
        /\ Len(SelectSeq(log, IsMark)) = 1
        /\ Len(SelectSeq(heap, IsList)) = 2
        /\ SelectSeq(heap, IsList)[1] = SelectSeq(heap, IsList)[2]
        /\ CallsBefore = CallsAfter

C11_Witness ==
    /\ prog.kind = "comprehension" /\ pc = "done"
    /\ prog.items = <<INTEGER_VAL(1), NONE_VAL>>
    /\ SelectSeq(heap, IsList)[1].values = <<INTEGER_VAL(11), NONE_VAL>>
    /\ Len(CallsBefore) = 2

(* C15: an upvalue is open only while the slot of the local it captured is *)
(* live, holding that local's value; once the local has left the stack, by *)
(* the end of its scope, by break, by continue or by return, the upvalue   *)
(* is closed with that value, and a read through the closure returns it.   *)
PrintedValues == [i \in 1..Len(SelectSeq(log, IsPrint)) |-> SelectSeq(log, IsPrint)[i].a]
OpenUpvalues == {u \in 1..Len(heap) : IsOpen(heap[u])}
C15_ClosedWhenLocalLeaves ==
    prog.kind = "closure" =>
        /\ \A u \in OpenUpvalues :
                /\ heap[u].location <= Len(stack)
                /\ stack[heap[u].location] = prog.items[1]
        /\ \A u \in 1..Len(heap) :
                (heap[u].type = "upvalue" /\ ~IsOpen(heap[u])) => heap[u].closed = prog.items[1]
        /\ pc = "done" => PrintedValues = <<prog.items[1], INTEGER_VAL(5)>>

-----------------------------------------------------------------------------
(* Properties of generators.  NeverResumed, Finished: of the generator as   *)
(* the last method called found it.  Resumed: that method ran the body.     *)
Resumer == pc = "generator" /\ pending.name \in {"__call__", "send"}
NeverResumed == pending.histBefore.resumes = 0
Finished == pending.histBefore.ended # "no"
Resumed == hist.resumes > pending.histBefore.resumes
Sent == IF pending.argc > 1 THEN pending.arg ELSE NONE_VAL

(* C5: send(x) with x not None on a generator that has never been resumed   *)
(* raises TypeError, runs none of the body, and leaves the generator as it  *)
(* was: unstarted and resumable from the start of its body.                 *)
C5_SendBeforeStart ==
    (pc = "generator" /\ pending.name = "send" /\ ~IS_NONE(pending.arg) /\ NeverResumed) =>
        /\ hasException
        /\ currentException = OBJECT_VAL("TypeError", 0)
        /\ hist = pending.histBefore
        /\ gen = pending.before
        /\ ~gen.started
        /\ gen.ip = 0

C5_Witness ==
    /\ pc = "generator"
    /\ pending.name = "send"
    /\ ~IS_NONE(pending.arg)
    /\ NeverResumed
    /\ Len(prog.segs) > 0

(* C6: once the body has returned or raised, every later call or send (an   *)
(* iteration step is a call) returns the generator itself and runs no more  *)
(* of the body.                                                             *)
C6_FinishedReturnsSelf ==
    (Resumer /\ Finished) =>
        /\ pending.ret = SELF
        /\ hist = pending.histBefore
        /\ ~hasException

C6_Witness ==
    /\ Resumer
    /\ pending.histBefore.ended = "raise"
    /\ pending.name = "send"
    /\ ~IS_NONE(pending.arg)
    /\ pending.before.started

(* C7: the resume during which the body executes `return v` returns the     *)
(* generator itself; from then on __finish__() returns v, and as long as    *)
(* the generator has not finished __finish__() returns None.                *)
C7_FinishReturnsResult ==
    /\ (Resumer /\ ~Finished /\ hist.ended = "return") => pending.ret = SELF
    /\ (pc = "generator" /\ pending.name = "__finish__" /\ hist.ended = "return") =>
          pending.ret = hist.value
    /\ (pc = "generator" /\ pending.name = "__finish__" /\ hist.ended = "no") =>
          pending.ret = NONE_VAL

C7_Witness ==
    /\ pc = "generator"
    /\ pending.name = "__finish__"
    /\ hist.ended = "return"
    /\ pending.ret = INTEGER_VAL(9)
    /\ Len(prog.segs) > 0

(* C8: a resume after a yield gives the frame the values it held at the     *)
(* yield, in the same order, but for the topmost, which is the value sent   *)
(* (None for a plain call).                                                 *)
C8_ResumeRestoresStack ==
    (Resumer /\ Resumed /\ ~NeverResumed) =>
        hist.resumeLive = Append(Pop(pending.histBefore.yieldLive), Sent)

C8_Witness ==
    /\ Resumer
    /\ Resumed
    /\ ~NeverResumed
    /\ Len(pending.histBefore.yieldLive) >= 3
    /\ Sent = INTEGER_VAL(5)
    /\ Len(stack) # Len(pending.before.args)

-----------------------------------------------------------------------------
(* Properties of chunks.                                                    *)

(* C18: for every byte of the chunk, a line-map entry with the largest      *)
(* start offset not above the byte's offset gives the line passed when the  *)
(* byte was last written, also after the write position was moved back.     *)
C18_LookupGivesWrittenLine ==
    pc = "chunk" =>
        \A o \in 0..(theChunk.count - 1) :
            \E i \in LineEntries(theChunk, o) : theChunk.lines[i].line = hist.written[o + 1]

(* C19: the line map is sorted by strictly increasing start offset, after   *)
(* any byte writes and any moves of the write position back.                *)
C19_LineMapSorted ==
    pc = "chunk" =>
        \A i \in 1..(Len(theChunk.lines) - 1) :
            theChunk.lines[i].startOffset < theChunk.lines[i + 1].startOffset

(* C20: an operand index i below 2^24 is emitted in the one-byte form       *)
(* exactly when i <= 255, and otherwise as the _LONG opcode and three       *)
(* bytes, most significant first; decoding the operand gives i.             *)
C20_OperandRoundTrip ==
    pc = "operand" =>
        \A j \in 1..Len(log) :
            LET at == log[j].at
                code == theChunk.code
                end == IF j < Len(log) THEN log[j + 1].at ELSE theChunk.count
            IN IF log[j].ind <= 255
               THEN /\ end = at + 2
                    /\ code[at + 1] = log[j].opc
                    /\ code[at + 2] = log[j].ind
               ELSE /\ end = at + 4
                    /\ code[at + 1] = LONG(log[j].opc)
                    /\ code[at + 2] * 65536 + code[at + 3] * 256 + code[at + 4] = log[j].ind

C20_Witness ==
    /\ pc = "operand"
    /\ Len(log) = 2
    /\ log[1].ind = 255
    /\ log[2].ind = 256
    /\ log[1].opc = OP_CONSTANT
    /\ log[2].opc = OP_GET_LOCAL
    /\ theChunk.count = 6

-----------------------------------------------------------------------------
(* Properties of krk_compile.                                               *)

(* C16: two compiles of the same source return the same function (the same  *)
(* bytecode and constants), whatever was compiled in between, a source      *)
(* with a syntax error included.                                            *)
C16_CompileIsDeterministic ==
    pc = "compiler" =>
        \A i, j \in 1..Len(log) :
            log[i].src = log[j].src => log[i].function = log[j].function

(* C17: at most one thread is inside krk_compile; the compiler lock is held *)
(* exactly while a thread is inside, from entry to return, after a syntax   *)
(* error as well, and it is free when no thread is inside.                  *)
C17_OneCompileAtATime ==
    pc = "compiler" =>
        /\ Cardinality({t \in Threads : Inside(t)}) <= 1
        /\ (_compilerLock = 1) <=> (\E t \in Threads : Inside(t))
        /\ _compilerLock \in {0, 1}

C17_Witness ==
    /\ pc = "compiler"
    /\ Len(log) = 2
    /\ ~log[1].function.ok
    /\ log[2].function.ok
    /\ Inside(2)
    /\ ~Inside(1)
    /\ _compilerLock = 1

(* C21: after a syntax error, errors are suppressed only until             *)
(* synchronize() has reached the next statement boundary: between two      *)
(* declarations the parser is out of panic mode, and a source with syntax  *)
(* errors in two statements has both of them raised.                       *)
TwoErrors == <<")", "EOL", "a", "EOL", ")", "EOL">>
C21_ErrorReportedAgain ==
    pc = "compiler" =>
        /\ \A t \in Threads : compiling[t].at = "loop" => ~parser.panicMode
        /\ \A i \in 1..Len(log) : Sources[log[i].src] = TwoErrors => log[i].raised = 2

-----------------------------------------------------------------------------
(* C22: a ** b ** c is compiled as a ** (b ** c): the program              *)
(* print(v1 ** v2 ** v3), once it has run, has printed v1 ^ (v2 ^ v3).     *)
IsPow == prog # <<>> /\ prog.kind = "expression" /\ prog.body = "**"
C22_ExponentRightAssociative ==
    (IsPow /\ pc = "done") =>
        PrintedValues
            = <<INTEGER_VAL(prog.items[1].v ^ (prog.items[2].v ^ prog.items[3].v))>>

-----------------------------------------------------------------------------
(* C23: e1() if e2() else e3() if e4() else e5() is                        *)
(* e1() if e2() else (e3() if e4() else e5()): e2 is called first, e4 only *)
(* when e2 returned false, exactly one of e1, e3, e5 is called and its     *)
(* value is the value of the expression.                                   *)
IsOperand(e) == e.ev = "operand"
OperandCalls == [i \in 1..Len(SelectSeq(log, IsOperand)) |-> SelectSeq(log, IsOperand)[i].o]
IsChained == prog # <<>> /\ prog.kind = "expression" /\ prog.body = "if if"
ChainedChoice ==
    IF prog.items[2] = BOOLEAN_VAL(TRUE) THEN 1
    ELSE IF prog.items[4] = BOOLEAN_VAL(TRUE) THEN 3
    ELSE 5
C23_ChainedConditional ==
    (IsChained /\ pc = "done") =>
        /\ OperandCalls = (IF ChainedChoice = 1 THEN <<2, 1>> ELSE <<2, 4, ChainedChoice>>)
        /\ PrintedValues = <<prog.items[ChainedChoice]>>

-----------------------------------------------------------------------------
(* C24: v1 OP v2 with OP one of < <= > >= and an instance of Foo on one    *)
(* side calls exactly one comparison method: Foo's own __lt__, __le__,     *)
(* __gt__, __ge__ when the instance is on the left, and the reflected      *)
(* method (__lt__ for >, __le__ for >=, __gt__ for <, __ge__ for <=) with  *)
(* the operands swapped when it is on the right; its answer is the value   *)
(* of the expression.                                                      *)
ComparisonMethods == {"__lt__", "__le__", "__gt__", "__ge__"}
MethodOf(op) ==
    CASE op = "<" -> "__lt__"
      [] op = "<=" -> "__le__"
      [] op = ">" -> "__gt__"
      [] OTHER -> "__ge__"
IsMethodCall(e) == e.ev \in ComparisonMethods
IsComparison == prog # <<>> /\ prog.kind = "expression" /\ prog.body \in {"<", "<=", ">", ">="}
ClaimedMethod ==
    IF IsFoo(prog.items[1]) THEN MethodOf(prog.body) ELSE Reflected(MethodOf(prog.body))
ClaimedSelf == IF IsFoo(prog.items[1]) THEN 1 ELSE 2
C24_ComparisonMethods ==
    (IsComparison /\ pc = "done") =>
        /\ SelectSeq(log, IsMethodCall)
                = <<Event(ClaimedMethod, prog.items[ClaimedSelf].v, prog.items[3 - ClaimedSelf])>>
        /\ PrintedValues
                = <<BOOLEAN_VAL(CompareInts(ClaimedMethod, prog.items[ClaimedSelf].v,
                                            prog.items[3 - ClaimedSelf].v))>>

-----------------------------------------------------------------------------
(* C25: krk_valuesEqual of a None, Handler or Kwargs value and a value of  *)
(* another kind is not-equal, whichever operand it is, and of such a value *)
(* and itself is equal.                                                    *)
OwnKind(a) == IS_NONE(a) \/ IS_HANDLER(a) \/ IS_KWARGS(a)
C25_EqualOnlyOwnKind ==
    pc = "values" =>
        \A i \in 1..Len(log) :
            (OwnKind(log[i].a) \/ OwnKind(log[i].b)) =>
                /\ log[i].a.t # log[i].b.t => ~log[i].equal
                /\ log[i].a = log[i].b => log[i].equal

-----------------------------------------------------------------------------
(* C26: while the set is not modified after __iter__, the iterator's calls *)
(* return elements of the set, no element twice; a call returns the        *)
(* iterator itself only after every element was returned, and every call   *)
(* after that one returns the iterator itself too.                         *)
Exhausted(v) == v = OBJECT_VAL("setiterator", 1)
IsYield(v) == ~Exhausted(v)
Yields == SelectSeq(log, IsYield)
C26_EachElementOnce ==
    (pc = "set" /\ gen # <<>> /\ ~hist.modified) =>
        /\ \A i, j \in 1..Len(log) : (i < j /\ Exhausted(log[i])) => Exhausted(log[j])
        /\ \A i \in 1..Len(Yields) : Yields[i] \in Elements(theSet)
        /\ \A i, j \in 1..Len(Yields) : i # j => Yields[i] # Yields[j]
        /\ (\E i \in 1..Len(log) : Exhausted(log[i])) =>
              {Yields[i] : i \in 1..Len(Yields)} = Elements(theSet)
C26_Witness ==
    /\ pc = "set" /\ gen # <<>> /\ ~hist.modified
    /\ Len(log) = 4 /\ Len(Yields) = 2
    /\ theSet.count = 2
    /\ \E i \in 1..Capacity(theSet) : theSet.entries[i] = Tombstone

-----------------------------------------------------------------------------
(* C27: for every set reached by add, remove, discard and clear,           *)
(* eval(repr(s)) is a set with the elements of s.                          *)
C27_ReprRoundTrip ==
    pc = "set" => eval(set___repr__(theSet)) = [class |-> "set", keys |-> Elements(theSet)]

-----------------------------------------------------------------------------
(* C28: the first token of a source that begins with an identifier-shaped  *)
(* lexeme covers the lexeme, with the keyword's type if the lexeme is a    *)
(* keyword and the type IDENTIFIER if it is not.                           *)
FirstLexeme == IF \E i \in 1..Len(hist.src) : hist.src[i] = " "
               THEN SubSeq(hist.src, 1, Len(hist.src) - 2) ELSE hist.src
C28_KeywordIffExact ==
    (pc = "scanner" /\ FirstLexeme \in IdentifierLexemes /\ Len(log) >= 1) =>
        /\ log[1].text = FirstLexeme
        /\ log[1].type = (IF FirstLexeme \in Keywords THEN KeywordType(FirstLexeme)
                          ELSE "IDENTIFIER")

-----------------------------------------------------------------------------
(* C29: the first token of a source that begins with an integer literal    *)
(* with a prefix 0x, 0b or 0o is a NUMBER whose text is the whole literal. *)
C29_PrefixedLiteralOneToken ==
    (pc = "scanner" /\ FirstLexeme \in NumberLexemes /\ Len(log) >= 1) =>
        log[1] = [type |-> "NUMBER", text |-> FirstLexeme]

-----------------------------------------------------------------------------
(* C30: when krk_compile returns, the chunk of every Function object that  *)
(* the compile allocated (the module's and each def's) ends with RETURN.   *)
EndsWithReturn(code) == code # <<>> /\ code[Len(code)] = OP_RETURN
C30_EveryFunctionEndsWithReturn ==
    pc = "compiler" =>
        \A i \in 1..Len(log) :
            \A f \in 1..Len(log[i].functions) : EndsWithReturn(log[i].functions[f])

-----------------------------------------------------------------------------
(* C31: every Compiler record pushed by initCompiler is popped by          *)
(* endCompiler before the C function that owns it returns, after a syntax  *)
(* error as well: `current` never points at the record of a function that  *)
(* has returned, and when krk_compile has returned no record is linked      *)
(* (`current` is NULL, as before the call).                                 *)
C31_CompilersPopped ==
    pc = "compiler" =>
        /\ ~parser.dead
        /\ \A i \in 1..Len(log) : log[i].current = 0

-----------------------------------------------------------------------------
(* C32: a with body inside a loop that is left by break or continue has    *)
(* __exit__ of its context manager called exactly once, before the loop    *)
(* ends or tests its condition again: when the program has printed 3,      *)
(* after the loop, the log holds one __enter__ and one __exit__.           *)
LeavesLoop == prog # <<>> /\ prog.kind = "loopwith" /\ prog.body \in {"break", "continue"}
C32_ExitOnBreakOrContinue ==
    (LeavesLoop /\ Printed(3)) =>
        /\ Len(SelectSeq(log, IsEnter)) = 1
        /\ Len(SelectSeq(log, IsExit)) = 1

-----------------------------------------------------------------------------
(* C33: a call in whose argument list a positional argument (a name, a     *)
(* number, an expression in parentheses) comes after NAME = value or after *)
(* **NAME does not compile: krk_compile has reported a syntax error.       *)
IsPositional(form) == form \in {"name", "number", "group"}
PositionalAfterKeyword(args) ==
    \E i, j \in 1..Len(args) :
        i < j /\ args[i] \in {"keyword", "kwexpand"} /\ IsPositional(args[j])
C33_PositionalAfterKeywordRejected ==
    (pc = "parsed" /\ hist.kind = "call" /\ PositionalAfterKeyword(hist.args)) =>
        parser.hadError

-----------------------------------------------------------------------------
(* C34: the eating-whitespace count is never negative, and it is zero      *)
(* whenever no thread is inside krk_compile: every compile, one that ended *)
(* with a syntax error included, leaves it at zero for the next one.       *)
C34_WhitespaceCountRestored ==
    pc = "compiler" =>
        /\ parser.eatingWhitespace >= 0
        /\ (\A t \in Threads : ~Inside(t)) => parser.eatingWhitespace = 0

-----------------------------------------------------------------------------
(* C35: no break or continue leaves the placeholder of its jump in the     *)
(* finished chunk, one written outside any loop included, and the jump     *)
(* goes to the exit of the loop (break) or to its next test (continue):    *)
(* the program of kind "loop" never prints 2, prints 1 once per turn of    *)
(* the loop that begins, and goes on to print 3.  An instruction's operand *)
(* bytes follow from its opcode: none below 64, one below 128, two below   *)
(* 192, else three.                                                        *)
OperandBytes(op) == IF op >= 192 THEN 3 ELSE IF op >= 128 THEN 2 ELSE IF op >= 64 THEN 1 ELSE 0

RECURSIVE Placeholders(_, _)
Placeholders(code, ip) ==
    IF ip >= Len(code) THEN {}
    ELSE (IF code[ip + 1] = OP_JUMP /\ code[ip + 2] = 255 /\ code[ip + 3] = 255
          THEN {ip} ELSE {})
            \cup Placeholders(code, ip + 1 + OperandBytes(code[ip + 1]))

IsLoop == prog # <<>> /\ prog.kind = "loop"
Turns ==
    CASE prog.body \in {"while break", "while continue", "break", "continue"} -> 1
      [] prog.body = "for break" -> IF prog.items = <<>> THEN 0 ELSE 1
      [] OTHER -> Len(prog.items)

C35_BreakContinuePatched ==
    (IsLoop /\ pc # "compile") =>
        /\ \A i \in 1..Len(chunks) : Placeholders(chunks[i].code, 0) = {}
        /\ ~Printed(2)
        /\ pc = "done" =>
              /\ Len(SelectSeq(log, LAMBDA e : e = Event("print", 0, INTEGER_VAL(1)))) = Turns
              /\ Printed(3)

-----------------------------------------------------------------------------
(* C36: the body of a generator is never executing twice at once: at most  *)
(* one frame of the thread runs it, also when the body calls or sends to   *)
(* its own generator while the running flag is set.                        *)
C36_OneExecutionAtATime ==
    pc \in {"resume", "overflow"} =>
        Cardinality({i \in 1..Len(frames) : IsBody(frames[i])}) <= 1

(* C37: after a lookahead that fails, for an else or elif after a block or *)
(* for NAME = in a call argument, the parser goes on to consume exactly    *)
(* the tokens it would have consumed without the lookahead: what it has    *)
(* before it after the token was given back is what it had before it when  *)
(* the lookahead began, and no token is given back while another is held.  *)
C37_LookaheadRestored ==
    pc \in {"parser", "parsed"} =>
        /\ ~parser.ungetTwice
        /\ \A i \in 1..Len(parser.lookahead) :
              parser.lookahead[i].after = parser.lookahead[i].before

(* C38: the descriptors written after CLOSURE keep every captured slot     *)
(* index whole: an index that does not fit in one byte is written in the   *)
(* three-byte form, and reading the descriptors back gives the (is-local,  *)
(* index) pairs the compiler recorded, in order.                           *)
C38_UpvalueIndexKept ==
    pc = "closed" =>
        /\ \A i \in 1..Len(current.upvalues) : current.upvalues[i].index > 255 => hist[i] = 4
        /\ log = current.upvalues

(* C39: resuming a generator writes no frame past the end of the frame     *)
(* stack: with no free frame left the resume fails and pushes nothing.     *)
C39_FrameStackBounded ==
    pc \in {"resume", "overflow"} =>
        /\ hist.written <= KRK_CALL_FRAMES_MAX
        /\ pc # "overflow"

(* C40: the scanner never moves its read position past the NUL that ends  *)
(* the source, also in a string or codepoint literal that is not closed    *)
(* and ends with a backslash.                                              *)
C40_ScannerStaysInSource ==
    pc \in {"scanner", "outside"} => hist.cur <= Len(hist.src) + 1

====
